---- MODULE Spec2Model ----
(***************************************************************************)
(* python-switchos: the wire codec (utils.py, endpoint.py), the field      *)
(* validator (validation.py) and the client's fetch/save orchestration     *)
(* (client.py), modelled as state machines over bounded inputs.            *)
(*                                                                         *)
(* Representation.                                                         *)
(*   - A Python value is a record [k, n, d, s, l]: k is its kind ("none",  *)
(*     "bool", "int", "float", "str", "list", or the name of a raised      *)
(*     exception), n/d a number (d = 1 for int and bool), s the code       *)
(*     points of a str, l the items of a list.                             *)
(*   - Text (str values, wire text, field keys on the wire) is a sequence  *)
(*     of code points.                                                     *)
(***************************************************************************)
EXTENDS Integers, Sequences, FiniteSets, TLC

VARIABLES
    pc,         \* position of the client call in progress
    cls,        \* endpoint class of the record / call
    rec,        \* the record the caller holds from its last successful fetch
    arg,        \* the record passed to the save in progress, as it was passed
    held,       \* the caller's record object as the call has left it
    validate,   \* save(validate=...)
    variant,    \* save(field_variant=...)
    steps,      \* steps of the call executed so far, in order
    errors,     \* result of validate_dataclass in this call
    body,       \* wire text produced by writeDataclass in this call
    requests,   \* transport calls issued by this call, in order
    response,   \* the transport's answer
    outcome,    \* how the call ended: exception raised or "ok"
    probe,      \* codec harness: the input value
    wire,       \* codec harness: the encoded wire token
    back,       \* codec harness: the decoded value
    stage,      \* codec harness: "input", "encoded", "decoded"; "read", "rewritten";
                \* "validated"; "fetched", "changed", "saved"
    fld         \* codec harness: the declaration of the field probed, if one is

\* two calls of one Client in flight at once: the locals of each call, and
\* the requests and answers that passed the transport, in order
VARIABLES calls, traffic
pairVars == <<calls, traffic>>
clientVars == <<pc, cls, rec, arg, held, validate, variant, steps, errors, body,
                requests, response, outcome>>
codecVars == <<probe, wire, back, stage, fld>>
vars == <<pc, cls, rec, arg, held, validate, variant, steps, errors, body,
          requests, response, outcome, probe, wire, back, stage, fld, calls, traffic>>

(***************************************************************************)
(* Bounds                                                                  *)
(***************************************************************************)
MaxStrLen == 3        \* longest string enumerated by the codec harness
MaxPorts == 2         \* longest per-port list enumerated (besides the default 10)

(***************************************************************************)
(* Python values                                                           *)
(***************************************************************************)
Val(k, n, d, s, l) == [k |-> k, n |-> n, d |-> d, s |-> s, l |-> l]
None == Val("none", 0, 1, <<>>, <<>>)
PyBool(b) == Val("bool", IF b THEN 1 ELSE 0, 1, <<>>, <<>>)
PyInt(i) == Val("int", i, 1, <<>>, <<>>)
PyStr(cps) == Val("str", 0, 1, cps, <<>>)
PyList(items) == Val("list", 0, 1, <<>>, items)
Raise(exc) == Val(exc, 0, 1, <<>>, <<>>)

Exceptions == {"ValueError", "TypeError", "IndexError", "UnicodeDecodeError",
               "UnicodeEncodeError", "OverflowError", "JSONDecodeError",
               "AttributeError"}
IsExc(v) == v.k \in Exceptions
IsNone(v) == v.k = "none"
IsList(v) == v.k = "list"
IsStr(v) == v.k = "str"
IsNumber(v) == v.k \in {"int", "float", "bool"}
True == PyBool(TRUE)
False == PyBool(FALSE)

\* Python truthiness, bool(x)
Truthy(v) ==
    CASE v.k = "none" -> FALSE
      [] v.k \in {"bool", "int", "float"} -> v.n # 0
      [] v.k = "str" -> v.s # <<>>
      [] v.k = "list" -> v.l # <<>>
      [] OTHER -> TRUE

Min(a, b) == IF a < b THEN a ELSE b
Max(a, b) == IF a > b THEN a ELSE b

\* [f(x) for x in xs]; an exception raised by f for an item propagates
MapList(F(_), xs) ==
    LET ys == [i \in 1..Len(xs) |-> F(xs[i])]
        bad == {i \in 1..Len(xs) : IsExc(ys[i])}
    IN IF bad = {} THEN PyList(ys)
       ELSE ys[CHOOSE i \in bad : \A j \in bad : i <= j]

\* the concatenation of the sequences in seqs
RECURSIVE Concat(_)
Concat(seqs) ==
    IF seqs = <<>> THEN <<>>
    ELSE IF Len(seqs) = 1 THEN seqs[1]
    ELSE LET half == Len(seqs) \div 2
         IN Concat(SubSeq(seqs, 1, half)) \o Concat(SubSeq(seqs, half + 1, Len(seqs)))

\* sep.join(parts)
Join(sep, parts) ==
    Concat([i \in 1..Len(parts) |-> IF i = 1 THEN parts[i] ELSE sep \o parts[i]])

(***************************************************************************)
(* Characters, hexadecimal and UTF-8                                       *)
(***************************************************************************)
\* "0123456789abcdef" as code points
HexChars == <<48, 49, 50, 51, 52, 53, 54, 55, 56, 57, 97, 98, 99, 100, 101, 102>>
IsHexOrd(cp) == cp \in 48..57 \/ cp \in 97..102 \/ cp \in 65..70
\* int(c, 16) for one hexadecimal digit
HexDigit(cp) ==
    IF cp \in 48..57 THEN cp - 48
    ELSE IF cp \in 97..102 THEN cp - 87
    ELSE cp - 55

\* punctuation of the wire text
LBrace == 123
RBrace == 125
LBracket == 91
RBracket == 93
Comma == 44
Colon == 58
Quote == 39
Zero == 48
LetterX == 120
Minus == 45
Dot == 46
ZeroX == <<Zero, LetterX>>
ZeroX00 == <<Zero, LetterX, Zero, Zero>>

\* format(value, "x") for value >= 0
RECURSIVE HexOf(_)
HexOf(n) ==
    IF n < 16 THEN <<HexChars[n + 1]>>
    ELSE HexOf(n \div 16) \o <<HexChars[(n % 16) + 1]>>

\* int(digits, 16)
RECURSIVE HexValue(_)
HexValue(cs) ==
    IF cs = <<>> THEN 0
    ELSE HexValue(SubSeq(cs, 1, Len(cs) - 1)) * 16 + HexDigit(cs[Len(cs)])

\* chr(cp).encode("utf-8")
Utf8Bytes(cp) ==
    IF cp < 128 THEN <<cp>>
    ELSE IF cp < 2048 THEN <<192 + (cp \div 64), 128 + (cp % 64)>>
    ELSE IF cp < 65536
    THEN <<224 + (cp \div 4096), 128 + ((cp \div 64) % 64), 128 + (cp % 64)>>
    ELSE <<240 + (cp \div 262144), 128 + ((cp \div 4096) % 64),
           128 + ((cp \div 64) % 64), 128 + (cp % 64)>>

\* str.encode("utf-8")
Utf8Encode(cps) == Concat([i \in 1..Len(cps) |-> Utf8Bytes(cps[i])])

IsCont(b) == b >= 128 /\ b < 192

\* bytes.decode() from the first byte on: the code points, or <<-1>> when
\* the bytes are not UTF-8
RECURSIVE Utf8DecodeFrom(_)
Utf8DecodeFrom(bs) ==
    IF bs = <<>> THEN <<>>
    ELSE LET b == bs[1]
             need == IF b < 128 THEN 0
                     ELSE IF b >= 194 /\ b < 224 THEN 1
                     ELSE IF b >= 224 /\ b < 240 THEN 2
                     ELSE IF b >= 240 /\ b < 245 THEN 3
                     ELSE -1
         IN IF need = -1 \/ Len(bs) < need + 1 THEN <<-1>>
            ELSE IF \E i \in 2..(need + 1) : ~IsCont(bs[i]) THEN <<-1>>
            ELSE LET cp == CASE need = 0 -> b
                             [] need = 1 -> (b - 192) * 64 + (bs[2] - 128)
                             [] need = 2 -> (b - 224) * 4096 + (bs[2] - 128) * 64
                                            + (bs[3] - 128)
                             [] OTHER -> (b - 240) * 262144 + (bs[2] - 128) * 4096
                                         + (bs[3] - 128) * 64 + (bs[4] - 128)
                     overlong == \/ need = 2 /\ cp < 2048
                                 \/ need = 3 /\ cp < 65536
                     surrogate == cp >= 55296 /\ cp < 57344
                     rest == Utf8DecodeFrom(SubSeq(bs, need + 2, Len(bs)))
                 IN IF overlong \/ surrogate \/ cp > 1114111 THEN <<-1>>
                    ELSE IF rest # <<>> /\ rest[Len(rest)] = -1 THEN <<-1>>
                    ELSE <<cp>> \o rest

\* bytes.decode(): ASCII bytes are their own code points
Utf8Decode(bs) ==
    IF \A i \in 1..Len(bs) : bs[i] < 128 THEN bs ELSE Utf8DecodeFrom(bs)

\* bytes.hex()
BytesHex(bs) ==
    Concat([i \in 1..Len(bs) |->
               <<HexChars[(bs[i] \div 16) + 1], HexChars[(bs[i] % 16) + 1]>>])

IsAsciiSpace(cp) == cp \in {9, 10, 11, 12, 13, 32}

\* bytes.fromhex(s): the bytes (whitespace between pairs is skipped), or <<-1>>
\* when it raises ValueError (odd length, non-hexadecimal character)
RECURSIVE FromHexSpaced(_)
FromHexSpaced(cps) ==
    IF cps = <<>> THEN <<>>
    ELSE IF IsAsciiSpace(cps[1]) THEN FromHexSpaced(Tail(cps))
    ELSE IF Len(cps) < 2 \/ ~IsHexOrd(cps[1]) \/ ~IsHexOrd(cps[2]) THEN <<-1>>
    ELSE LET rest == FromHexSpaced(SubSeq(cps, 3, Len(cps)))
         IN IF rest # <<>> /\ rest[Len(rest)] = -1 THEN <<-1>>
            ELSE <<HexDigit(cps[1]) * 16 + HexDigit(cps[2])>> \o rest

FromHex(cps) ==
    IF \E i \in 1..Len(cps) : IsAsciiSpace(cps[i]) THEN FromHexSpaced(cps)
    ELSE IF Len(cps) % 2 = 1 \/ \E i \in 1..Len(cps) : ~IsHexOrd(cps[i]) THEN <<-1>>
    ELSE [i \in 1..(Len(cps) \div 2) |->
             HexDigit(cps[2 * i - 1]) * 16 + HexDigit(cps[2 * i])]

\* str.isspace() for one character
IsSpace(cp) ==
    \/ cp \in 9..13
    \/ cp \in 28..32
    \/ cp \in {133, 160, 5760, 8232, 8233, 8239, 8287, 12288}
    \/ cp \in 8192..8202

\* s.rstrip(chars): strip trailing characters satisfying P
RECURSIVE RStrip(_, _)
RStrip(P(_), s) ==
    IF s # <<>> /\ P(s[Len(s)]) THEN RStrip(P, SubSeq(s, 1, Len(s) - 1)) ELSE s

IsNul(cp) == cp = 0

(***************************************************************************)
(* utils.py: scalar transforms, wire -> Python                             *)
(***************************************************************************)
\* the str.rstrip calls of hex_to_str
StripTrailing(s) == RStrip(IsSpace, RStrip(IsNul, s))

\* a hex_to_str that strips the text at both of its ends
hex_to_str_strip(value) ==
    IF ~IsStr(value) THEN Raise("TypeError")
    ELSE LET cps == Utf8Decode(FromHex(value.s))
             Rev(t) == [i \in 1..Len(t) |-> t[Len(t) + 1 - i]]
         IN PyStr(Rev(StripTrailing(Rev(StripTrailing(cps)))))

hex_to_str(value) ==
    IF ~IsStr(value) THEN Raise("TypeError")
    ELSE LET bs == FromHex(value.s)
         IN IF bs # <<>> /\ bs[Len(bs)] = -1 THEN Raise("ValueError")
            ELSE LET cps == Utf8Decode(bs)
                 IN IF cps # <<>> /\ cps[Len(cps)] = -1
                    THEN Raise("UnicodeDecodeError")
                    ELSE PyStr(StripTrailing(cps))

(***************************************************************************)
(* utils.py: reverse transforms, Python -> wire                            *)
(***************************************************************************)
\* format(value, "b") for value >= 0, least significant bit first
RECURSIVE BitsLsb(_)
BitsLsb(n) == IF n < 2 THEN <<n>> ELSE <<n % 2>> \o BitsLsb(n \div 2)

\* a | b for a, b >= 0
RECURSIVE BitOr(_, _)
BitOr(a, b) ==
    IF a = 0 THEN b
    ELSE IF b = 0 THEN a
    ELSE Max(a % 2, b % 2) + 2 * BitOr(a \div 2, b \div 2)

RECURSIVE Pow2(_)
Pow2(n) == IF n = 0 THEN 1 ELSE 2 * Pow2(n - 1)

RECURSIVE Gcd(_, _)
Gcd(a, b) == IF b = 0 THEN a ELSE Gcd(b, a % b)
Abs(a) == IF a < 0 THEN -a ELSE a

\* the float n / d, kept as a reduced fraction
PyFloat(n, d) ==
    LET g == Gcd(Abs(n), Abs(d))
        sgn == IF d < 0 THEN -1 ELSE 1
    IN Val("float", sgn * (n \div g), sgn * (d \div g), <<>>, <<>>)

\* Python ==, where 1 == 1.0 == True
PyEq(a, b) ==
    IF IsNumber(a) /\ IsNumber(b) THEN a.n * b.d = b.n * a.d
    ELSE a = b

\* str(n) for n >= 0, as code points
RECURSIVE DecStr(_)
DecStr(n) == IF n < 10 THEN <<48 + n>> ELSE DecStr(n \div 10) \o <<48 + (n % 10)>>

\* int(s) for a str of decimal digits: the number, or -1 when it raises ValueError
RECURSIVE DecValue(_)
DecValue(cps) ==
    IF cps = <<>> THEN -1
    ELSE IF cps[Len(cps)] \notin 48..57 THEN -1
    ELSE IF Len(cps) = 1 THEN cps[1] - 48
    ELSE LET hi == DecValue(SubSeq(cps, 1, Len(cps) - 1))
         IN IF hi = -1 THEN -1 ELSE hi * 10 + (cps[Len(cps)] - 48)

\* s.split(sep)
RECURSIVE Split(_, _)
Split(cps, sep) ==
    IF \A i \in 1..Len(cps) : cps[i] # sep THEN <<cps>>
    ELSE LET i == CHOOSE j \in 1..Len(cps) :
                      cps[j] = sep /\ \A k \in 1..(j - 1) : cps[k] # sep
         IN <<SubSeq(cps, 1, i - 1)>> \o Split(SubSeq(cps, i + 1, Len(cps)), sep)

Upper(cp) == IF cp \in 97..122 THEN cp - 32 ELSE cp
Lower(cp) == IF cp \in 65..90 THEN cp + 32 ELSE cp

\* hex digits padded with one leading zero to an even count
EvenHex(digits) == IF Len(digits) % 2 = 1 THEN <<Zero>> \o digits ELSE digits

\* re.sub of hex_to_sfp_type: every "{" hex digits "}" run becomes the
\* decimal form of the number the digits write
RECURSIVE ReplaceHexRuns(_)
ReplaceHexRuns(cps) ==
    IF cps = <<>> THEN <<>>
    ELSE LET closes == {j \in 3..Len(cps) :
                           /\ cps[j] = RBrace
                           /\ \A m \in 2..(j - 1) : IsHexOrd(cps[m])}
         IN IF cps[1] = LBrace /\ closes # {}
            THEN LET j == CHOOSE c \in closes : TRUE
                 IN DecStr(HexValue(SubSeq(cps, 2, j - 1)))
                    \o ReplaceHexRuns(SubSeq(cps, j + 1, Len(cps)))
            ELSE <<cps[1]>> \o ReplaceHexRuns(Tail(cps))

hex_to_sfp_type(value) ==
    IF ~IsStr(value) THEN Raise("TypeError")
    ELSE LET bs == FromHex(value.s)
         IN IF bs # <<>> /\ bs[Len(bs)] = -1 THEN Raise("ValueError")
            ELSE LET cps == Utf8Decode(bs)
                 IN IF cps # <<>> /\ cps[Len(cps)] = -1
                    THEN Raise("UnicodeDecodeError")
                    ELSE PyStr(ReplaceHexRuns(RStrip(IsNul, cps)))

\* round(10 * math.log10(value / 10000), 3) in thousandths, for the raw
\* readings probed
DbmReadings ==
    {<<1, -40000>>, <<10, -30000>>, <<100, -20000>>, <<1000, -10000>>,
     <<5000, -3010>>, <<10000, 0>>, <<20000, 3010>>}
DbmScale == 10000

hex_to_dbm(value, scale) ==
    IF ~IsNumber(value) THEN Raise("TypeError")
    ELSE IF value.n = 0 THEN PyFloat(0, 1)
    ELSE IF value.n < 0 THEN Raise("ValueError")
    ELSE LET reading == CHOOSE r \in DbmReadings : r[1] = value.n /\ scale = DbmScale
         IN PyFloat(reading[2], 1000)

hex_to_bool_list(value, length) ==
    IF value.k = "str" THEN Raise("ValueError")
    ELSE IF ~IsNumber(value) \/ value.k = "float" THEN Raise("TypeError")
    ELSE LET bits == BitsLsb(value.n)
             n == Max(Len(bits), length)
         IN PyList([i \in 1..n |-> PyBool(i <= Len(bits) /\ bits[i] = 1)])

hex_to_option(value, options) ==
    IF ~IsNumber(value) THEN Raise("TypeError")
    ELSE IF value.n >= Len(options) THEN None
    ELSE PyStr(options[value.n + 1])

\* ":".join(re.findall("..", value.upper()))
RECURSIVE Pairs(_)
Pairs(cps) ==
    IF Len(cps) < 2 THEN <<>>
    ELSE <<SubSeq(cps, 1, 2)>> \o Pairs(SubSeq(cps, 3, Len(cps)))

hex_to_mac(value) ==
    IF ~IsStr(value) THEN Raise("AttributeError")
    ELSE PyStr(Join(<<58>>, Pairs([i \in 1..Len(value.s) |-> Upper(value.s[i])])))

\* one element of process_int: signed conversion, then division by scale
ProcessOne(v, signed, bits, scaleN, scaleD) ==
    IF ~IsNumber(v) THEN (IF (signed /\ bits # 0) \/ scaleD # 0
                          THEN Raise("TypeError") ELSE v)
    ELSE LET half == Pow2(bits - 1)
             full == Pow2(bits)
             s == IF signed /\ bits # 0 /\ v.n >= half
                  THEN [v EXCEPT !.n = v.n - full, !.k = "int"] ELSE v
         IN IF scaleD # 0 THEN PyFloat(s.n * scaleD, s.d * scaleN) ELSE s

process_int(value, signed, bits, scaleN, scaleD) ==
    IF IsList(value)
    THEN LET P(v) == ProcessOne(v, signed, bits, scaleN, scaleD)
         IN MapList(P, value.l)
    ELSE ProcessOne(value, signed, bits, scaleN, scaleD)

\* a decoder that reads the most significant byte as the first octet
hex_to_ip_big_endian(value) ==
    IF ~IsNumber(value) \/ value.k = "float" THEN Raise("AttributeError")
    ELSE IF value.n < 0 THEN Raise("OverflowError")
    ELSE LET n == value.n
             octets == <<(n \div 16777216), (n \div 65536) % 256, (n \div 256) % 256,
                         n % 256>>
         IN IF octets[1] > 255 THEN Raise("OverflowError")
            ELSE PyStr(Join(<<46>>, [i \in 1..4 |-> DecStr(octets[i])]))

hex_to_ip(value) ==
    IF ~IsNumber(value) \/ value.k = "float" THEN Raise("AttributeError")
    ELSE IF value.n < 0 THEN Raise("OverflowError")
    ELSE LET n == value.n
             octets == <<n % 256, (n \div 256) % 256, (n \div 65536) % 256,
                         (n \div 16777216)>>
         IN IF octets[4] > 255 THEN Raise("OverflowError")
            ELSE PyStr(Join(<<46>>, [i \in 1..4 |-> DecStr(octets[i])]))

\* bit i (0-based) of value >= 0: (value >> i) & 1
BitAt(value, i) == (value \div Pow2(i)) % 2

TwelveZeros == [i \in 1..12 |-> Zero]

hex_to_partner_mac(value) ==
    IF value = PyStr(TwelveZeros) \/ ~Truthy(value) THEN PyStr(<<>>)
    ELSE hex_to_mac(value)

hex_to_partner_ip(value) ==
    IF IsNumber(value) /\ value.n = 0 THEN PyStr(<<>>)
    ELSE hex_to_ip(value)

\* a decoder that takes the first option for a set bit
hex_to_bool_option_swapped(value, options, length) ==
    IF ~IsNumber(value) \/ value.k = "float" THEN Raise("TypeError")
    ELSE IF length > 0 /\ Len(options) < 2 THEN Raise("IndexError")
    ELSE PyList([i \in 1..length |->
                    PyStr(options[IF BitAt(value.n, i - 1) = 1 THEN 1 ELSE 2])])

hex_to_bool_option(value, options, length) ==
    IF ~IsNumber(value) \/ value.k = "float" THEN Raise("TypeError")
    ELSE IF length > 0 /\ \E i \in 0..(length - 1) :
                              Len(options) < (IF BitAt(value.n, i) = 1 THEN 2 ELSE 1)
    THEN Raise("IndexError")
    ELSE PyList([i \in 1..length |->
                    PyStr(options[IF BitAt(value.n, i - 1) = 1 THEN 2 ELSE 1])])

\* a decoder that looks the combined index up as it is
hex_to_bitshift_option_unclamped(low, high, options, length) ==
    IF ~IsNumber(low) \/ low.k = "float" \/ ~IsNumber(high) \/ high.k = "float"
    THEN Raise("TypeError")
    ELSE IF \E i \in 1..length :
                BitAt(low.n, i - 1) + 2 * BitAt(high.n, i - 1) >= Len(options)
    THEN Raise("IndexError")
    ELSE PyList([i \in 1..length |->
                    PyStr(options[BitAt(low.n, i - 1) + 2 * BitAt(high.n, i - 1) + 1])])

hex_to_bitshift_option(low, high, options, length) ==
    IF ~IsNumber(low) \/ low.k = "float" \/ ~IsNumber(high) \/ high.k = "float"
    THEN Raise("TypeError")
    ELSE IF length > 0 /\ options = <<>> THEN Raise("IndexError")
    ELSE PyList([i \in 1..length |->
                    LET low_bit == BitAt(low.n, i - 1)
                        high_bit == BitAt(high.n, i - 1)
                        index == Min(low_bit + 2 * high_bit, Len(options) - 1)
                    IN PyStr(options[index + 1])])

(***************************************************************************)
(* utils.py: scalar transforms, Python -> wire                             *)
(***************************************************************************)
bool_list_to_hex(values) ==
    IF ~Truthy(values) THEN PyStr(ZeroX00)
    ELSE IF ~IsList(values) THEN Raise("TypeError")
    ELSE LET xs == values.l
             Bit(i) == IF Truthy(xs[i]) THEN Pow2(i - 1) ELSE 0
             RECURSIVE Sum(_)
             Sum(i) == IF i = 0 THEN 0 ELSE Bit(i) + Sum(i - 1)
             bitmask == Sum(Len(xs))
         IN IF bitmask = 0 THEN PyStr(ZeroX00)
            ELSE PyStr(ZeroX \o EvenHex(HexOf(bitmask)))

\* f"{value:x}" with the sign in front
SignedHex(n) == IF n < 0 THEN <<Minus>> \o HexOf(-n) ELSE HexOf(n)

\* value * scale in IEEE-754 double arithmetic, for a float value k / scale:
\* the integers k up to 255 whose product comes out just below k, so that
\* int() gives k - 1 (0.29 * 100 is 28.999999999999996).  Scales 10 and 1000
\* have no such k up to 255.
ShortProducts(scale) ==
    IF scale = 100
    THEN {29, 57, 58, 113, 114, 115, 116, 201, 203, 205, 207, 226, 228, 230,
          232, 251, 253, 255}
    ELSE {}

\* an encoder that rounds the scaled value to the nearest integer
int_to_hex_rounded(value, scaleN, scaleD) ==
    IF ~IsNumber(value) THEN Raise(IF IsStr(value) THEN "ValueError" ELSE "TypeError")
    ELSE LET num == IF scaleD # 0 THEN value.n * scaleN ELSE value.n
             den == IF scaleD # 0 THEN value.d * scaleD ELSE value.d
             v == IF num >= 0 THEN (2 * num + den) \div (2 * den)
                  ELSE -((2 * (-num) + den) \div (2 * den))
         IN IF v = 0 THEN PyStr(ZeroX00)
            ELSE PyStr(ZeroX \o EvenHex(SignedHex(v)))

int_to_hex(value, scaleN, scaleD) ==
    IF ~IsNumber(value) THEN Raise(IF IsStr(value) THEN "ValueError" ELSE "TypeError")
    ELSE LET num == IF scaleD # 0 THEN value.n * scaleN ELSE value.n
             den == IF scaleD # 0 THEN value.d * scaleD ELSE value.d
             \* the float product falls short of the integer it stands for
             short == /\ value.k = "float" /\ scaleD = 1 /\ num % den = 0
                      /\ (num \div den) \in ShortProducts(scaleN)
             \* int() truncates toward zero
             v == IF short THEN (num \div den) - 1
                  ELSE IF num >= 0 THEN num \div den ELSE -((-num) \div den)
         IN IF v = 0 THEN PyStr(ZeroX00)
            ELSE PyStr(ZeroX \o EvenHex(SignedHex(v)))

str_to_hex(value) ==
    IF ~Truthy(value) THEN PyStr(<<Quote, Quote>>)
    ELSE IF ~IsStr(value) THEN Raise("AttributeError")
    ELSE PyStr(<<Quote>> \o BytesHex(Utf8Encode(value.s)) \o <<Quote>>)

mac_to_hex(value) ==
    IF ~Truthy(value) THEN PyStr(<<Quote, Quote>>)
    ELSE IF ~IsStr(value) THEN Raise("AttributeError")
    ELSE LET hex_only == SelectSeq([i \in 1..Len(value.s) |-> Lower(value.s[i])],
                                   LAMBDA cp : cp # Colon)
         IN PyStr(<<Quote>> \o hex_only \o <<Quote>>)

ip_to_hex(value) ==
    IF ~Truthy(value) THEN PyStr(ZeroX00)
    ELSE IF ~IsStr(value) THEN Raise("AttributeError")
    ELSE LET parts == Split(value.s, Dot)
             octets == [i \in 1..Len(parts) |-> DecValue(parts[i])]
         IN IF \E i \in 1..Len(parts) : octets[i] = -1 THEN Raise("ValueError")
            ELSE IF Len(parts) < 4 THEN Raise("IndexError")
            ELSE LET int_val == BitOr(BitOr(octets[1], octets[2] * 256),
                                      BitOr(octets[3] * 65536, octets[4] * 16777216))
                 IN IF int_val = 0 THEN PyStr(ZeroX00)
                    ELSE int_to_hex(PyInt(int_val), 0, 0)

option_to_hex(value, options) ==
    IF \E i \in 1..Len(options) : PyStr(options[i]) = value
    THEN LET index == (CHOOSE i \in 1..Len(options) :
                           /\ PyStr(options[i]) = value
                           /\ \A j \in 1..(i - 1) : PyStr(options[j]) # value) - 1
             digits == HexOf(index)
         IN PyStr(ZeroX \o (IF Len(digits) < 2 THEN <<Zero>> \o digits ELSE digits))
    ELSE PyStr(ZeroX00)

(***************************************************************************)
(* Endpoint record declarations (endpoints/*.py)                           *)
(*                                                                         *)
(* A field descriptor is the dataclass field with its metadata dictionary: *)
(* absent keys are "" / <<>> / -1 / scaleD = 0; required is TRUE when the  *)
(* field is declared without a default.                                    *)
(***************************************************************************)
Fld(fname, names, type, writable, required) ==
    [fname |-> fname, name |-> names, type |-> type, writable |-> writable,
     required |-> required, signed |-> FALSE, bits |-> 0, scaleN |-> 0,
     scaleD |-> 0, options |-> <<>>, ports |-> -1, high |-> "", pair |-> "",
     max_length |-> -1, hasMin |-> FALSE, min |-> 0, hasMax |-> FALSE, max |-> 0]
NoField == Fld("", <<>>, "none", FALSE, FALSE)
WithOptions(f, opts) == [f EXCEPT !.options = opts]
WithScale(f, n, d) == [f EXCEPT !.scaleN = n, !.scaleD = d]
WithSigned(f, bits) == [f EXCEPT !.signed = TRUE, !.bits = bits]
WithHigh(f, h) == [f EXCEPT !.high = h]
WithPair(f, p) == [f EXCEPT !.pair = p]
WithPorts(f, n) == [f EXCEPT !.ports = n]
WithMaxLength(f, n) == [f EXCEPT !.max_length = n]
WithBounds(f, lo, hi) == [f EXCEPT !.hasMin = TRUE, !.min = lo, !.hasMax = TRUE, !.max = hi]

\* Literal option lists, as the code points of each option
AddressAcquisition ==
    << <<68, 72, 67, 80, 95, 70, 65, 76, 76, 66, 65, 67, 75>>,   \* "DHCP_FALLBACK"
       <<83, 84, 65, 84, 73, 67>>,                               \* "STATIC"
       <<68, 72, 67, 80>> >>                                     \* "DHCP"
PortCostMode == << <<115, 104, 111, 114, 116>>, <<108, 111, 110, 103>> >>  \* "short", "long"
IgmpVersion == << <<118, 50>>, <<118, 51>> >>                    \* "v2", "v3"
Speed == << <<49, 48, 77>>, <<49, 48, 48, 77>>, <<49, 71>> >>    \* "10M", "100M", "1G"

SnmpFields ==
    << Fld("enabled", <<"i01">>, "scalar_bool", TRUE, TRUE),
       Fld("community", <<"i02">>, "str", TRUE, TRUE),
       Fld("contact_info", <<"i03">>, "str", TRUE, TRUE),
       Fld("location", <<"i04">>, "str", TRUE, TRUE) >>

SystemFields ==
    << WithOptions(Fld("address_acquisition", <<"iptp", "i0a">>, "option", TRUE, TRUE),
                   AddressAcquisition),
       Fld("static_ip", <<"ip", "i09">>, "ip", TRUE, TRUE),
       Fld("ip", <<"cip", "i02">>, "ip", FALSE, TRUE),
       Fld("identity", <<"id", "i05">>, "str", TRUE, TRUE),
       Fld("serial", <<"sid", "i04">>, "str", FALSE, TRUE),
       Fld("mac", <<"mac", "i03">>, "mac", FALSE, TRUE),
       Fld("model", <<"brd", "i07">>, "str", FALSE, TRUE),
       Fld("version", <<"ver", "i06">>, "str", FALSE, TRUE),
       Fld("revision", <<"rev">>, "str", FALSE, FALSE),
       Fld("uptime", <<"upt", "i01">>, "int", FALSE, FALSE),
       Fld("build_number", <<"i0b">>, "int", FALSE, FALSE),
       Fld("bridge_priority", <<"i0e">>, "int", TRUE, FALSE),
       Fld("forward_reserved_multicast", <<"i2a">>, "scalar_bool", TRUE, FALSE),
       WithOptions(Fld("port_cost_mode", <<"i0f">>, "option", TRUE, FALSE), PortCostMode),
       Fld("root_bridge_priority", <<"i10">>, "int", FALSE, FALSE),
       Fld("root_bridge_mac", <<"i11">>, "mac", FALSE, FALSE),
       Fld("allow_from_ip", <<"i19">>, "ip", TRUE, FALSE),
       Fld("allow_from_mask", <<"i1a">>, "int", TRUE, FALSE),
       Fld("allow_from_ports", <<"i12">>, "bool", TRUE, FALSE),
       Fld("allow_from_vlan", <<"i1b">>, "int", TRUE, FALSE),
       Fld("igmp_snooping", <<"i17">>, "scalar_bool", TRUE, FALSE),
       Fld("igmp_querier", <<"i29">>, "scalar_bool", TRUE, FALSE),
       Fld("igmp_fast_leave", <<"i27">>, "bool", TRUE, FALSE),
       WithOptions(Fld("igmp_version", <<"i28">>, "option", TRUE, FALSE), IgmpVersion),
       Fld("mikrotik_discovery_protocol", <<"i08">>, "bool", TRUE, FALSE),
       Fld("dhcp_snooping_trusted_ports", <<"i13">>, "bool", TRUE, FALSE),
       Fld("dhcp_snooping_add_info_option", <<"i14">>, "scalar_bool", TRUE, FALSE),
       WithSigned(Fld("cpu_temp", <<"temp", "i22">>, "int", FALSE, FALSE), 16),
       Fld("psu1_current", <<"p1c", "i16">>, "int", FALSE, FALSE),
       WithScale(Fld("psu1_voltage", <<"p1v", "i15">>, "int", FALSE, FALSE), 100, 1),
       Fld("psu2_current", <<"p2c", "i1f">>, "int", FALSE, FALSE),
       WithScale(Fld("psu2_voltage", <<"p2v", "i1e">>, "int", FALSE, FALSE), 100, 1),
       WithScale(Fld("psu1_power", <<"p1p">>, "int", FALSE, FALSE), 10, 1),
       WithScale(Fld("psu2_power", <<"p2p">>, "int", FALSE, FALSE), 10, 1),
       WithScale(Fld("power_consumption", <<"i26">>, "int", FALSE, FALSE), 10, 1) >>

SfpFields ==
    << Fld("vendor", <<"i01">>, "str", FALSE, TRUE),
       Fld("part_number", <<"i02">>, "str", FALSE, TRUE),
       Fld("revision", <<"i03">>, "str", FALSE, TRUE),
       Fld("serial", <<"i04">>, "str", FALSE, TRUE),
       Fld("date", <<"i05">>, "str", FALSE, TRUE),
       Fld("type", <<"i06">>, "sfp_type", FALSE, TRUE),
       Fld("temperature", <<"i08">>, "int", FALSE, TRUE),
       WithScale(Fld("voltage", <<"i09">>, "int", FALSE, TRUE), 1000, 1),
       Fld("tx_bias", <<"i0a">>, "int", FALSE, TRUE),
       WithScale(Fld("tx_power", <<"i0b">>, "dbm", FALSE, TRUE), 10000, 1),
       WithScale(Fld("rx_power", <<"i0c">>, "dbm", FALSE, TRUE), 10000, 1) >>

StatsInt(fname, key) == Fld(fname, <<key>>, "int", FALSE, TRUE)
StatsU64(fname, key, high) == WithHigh(Fld(fname, <<key>>, "uint64", FALSE, TRUE), high)
StatsFields ==
    << WithScale(StatsInt("rx_rate", "i21"), 8, 25),
       WithScale(StatsInt("tx_rate", "i22"), 8, 25),
       WithScale(StatsInt("rx_packet_rate", "i25"), 64, 25),
       WithScale(StatsInt("tx_packet_rate", "i26"), 64, 25),
       StatsU64("rx_bytes", "i01", "i02"),
       StatsU64("tx_bytes", "i0f", "i10"),
       StatsInt("rx_total_packets", "i23"),
       StatsInt("tx_total_packets", "i24"),
       StatsU64("rx_unicasts", "i05", "i27"),
       StatsU64("tx_unicasts", "i11", "i28"),
       StatsU64("rx_broadcasts", "i07", "i29"),
       StatsU64("tx_broadcasts", "i14", "i2a"),
       StatsU64("rx_multicasts", "i08", "i2b"),
       StatsU64("tx_multicasts", "i13", "i2c"),
       StatsInt("rx_pauses", "i17"),
       StatsInt("rx_errors", "i1d"),
       StatsInt("rx_fcs_errors", "i1e"),
       StatsInt("rx_jabber", "i1c"),
       StatsInt("rx_runts", "i19"),
       StatsInt("rx_fragments", "i1a"),
       StatsInt("rx_too_long", "i1b"),
       StatsInt("tx_pauses", "i16"),
       StatsInt("tx_fcs_errors", "i04"),
       StatsInt("tx_collisions", "i1f"),
       StatsInt("tx_single_collisions", "i15"),
       StatsInt("tx_multiple_collisions", "i18"),
       StatsInt("tx_excessive_collisions", "i12"),
       StatsInt("tx_late_collisions", "i20"),
       StatsInt("tx_deferred", "i06"),
       StatsInt("hist_64", "i09"),
       StatsInt("hist_65_127", "i0a"),
       StatsInt("hist_128_255", "i0b"),
       StatsInt("hist_256_511", "i0c"),
       StatsInt("hist_512_1023", "i0d"),
       StatsInt("hist_1024_max", "i0e") >>

\* endpoints/link.py, from its uses in tests/test_serialization.py,
\* tests/test_roundtrip.py, tests/test_link_endpoint.py and tests/test_client_save.py
LinkFields ==
    << Fld("enabled", <<"en", "i01">>, "bool", TRUE, TRUE),
       Fld("name", <<"nm", "i0a">>, "str", TRUE, TRUE),
       Fld("link_state", <<"lnk", "i06">>, "bool", FALSE, FALSE),
       Fld("auto_negotiation", <<"an", "i02">>, "bool", TRUE, FALSE),
       WithOptions(Fld("speed", <<"spdc", "i08">>, "option", FALSE, FALSE), Speed),
       WithOptions(Fld("man_speed", <<"spd", "i05">>, "option", TRUE, FALSE), Speed) >>

\* The dataclasses tests/test_validation.py validates, as the fields of one
\* class: default and declared string maximum, integer bounds and none,
\* options and none, each alone and per port, and a non-writable field
ColorOption ==
    << <<114, 101, 100>>, <<103, 114, 101, 101, 110>>, <<98, 108, 117, 101>> >>
CustomMaxLength == 30
BoundMin == 0
BoundMax == 100
FixtureFields ==
    << Fld("name", <<"nm">>, "str", TRUE, FALSE),
       WithMaxLength(Fld("title", <<"nm">>, "str", TRUE, FALSE), CustomMaxLength),
       Fld("names", <<"nm">>, "str", TRUE, FALSE),
       WithBounds(Fld("value", <<"val">>, "int", TRUE, FALSE), BoundMin, BoundMax),
       WithBounds(Fld("values", <<"val">>, "int", TRUE, FALSE), BoundMin, BoundMax),
       Fld("free", <<"val">>, "int", TRUE, FALSE),
       WithOptions(Fld("color", <<"clr">>, "option", TRUE, FALSE), ColorOption),
       WithOptions(Fld("colors", <<"clr">>, "option", TRUE, FALSE), ColorOption),
       Fld("plain", <<"val">>, "option", TRUE, FALSE),
       Fld("readonly_name", <<"nm">>, "str", FALSE, FALSE) >>

\* a writable endpoint that holds, beside a string and an integer, writable
\* fields of the types _serialize_field has no encoding for, a non-writable
\* field, and a writable "bool_option" field
MixedFields ==
    << Fld("label", <<"i01">>, "str", TRUE, FALSE),
       WithPair(WithOptions(Fld("port_type", <<"i02">>, "bitshift_option", TRUE, FALSE),
                            ColorOption), "i03"),
       Fld("module", <<"i04">>, "sfp_type", TRUE, FALSE),
       WithScale(Fld("power", <<"i05">>, "dbm", TRUE, FALSE), 10000, 1),
       Fld("count", <<"i06">>, "int", FALSE, FALSE),
       Fld("limit", <<"i07">>, "int", TRUE, FALSE),
       WithOptions(Fld("cost_mode", <<"i08">>, "bool_option", TRUE, FALSE), PortCostMode) >>

Classes == {"SnmpEndpoint", "SystemEndpoint", "SfpEndpoint", "StatsEndpoint",
            "LinkEndpoint"}

\* dataclasses.fields(cls)
fields(c) ==
    CASE c = "SnmpEndpoint" -> SnmpFields
      [] c = "SystemEndpoint" -> SystemFields
      [] c = "SfpEndpoint" -> SfpFields
      [] c = "StatsEndpoint" -> StatsFields
      [] c = "LinkEndpoint" -> LinkFields
      [] c = "FixtureEndpoint" -> FixtureFields
      [] c = "MixedEndpoint" -> MixedFields

\* the @endpoint(path, *alternates, readonly=...) decorator of each class
endpoint_path(c) ==
    CASE c = "SnmpEndpoint" -> "snmp.b"
      [] c = "SystemEndpoint" -> "sys.b"
      [] c = "SfpEndpoint" -> "sfp.b"
      [] c = "StatsEndpoint" -> "!stats.b"
      [] c = "LinkEndpoint" -> "link.b"
      [] c = "MixedEndpoint" -> "mixed.b"

endpoint_alternates(c) == IF c = "StatsEndpoint" THEN <<"stats.b">> ELSE <<>>

endpoint_readonly(c) ==
    CASE c \in {"SnmpEndpoint", "MixedEndpoint"} -> FALSE
      [] c = "SystemEndpoint" -> FALSE
      [] c = "SfpEndpoint" -> TRUE
      [] c = "StatsEndpoint" -> FALSE
      [] c = "LinkEndpoint" -> FALSE

FieldNames(c) == {fields(c)[i].fname : i \in 1..Len(fields(c))}


(***************************************************************************)
(* Wire text                                                               *)
(***************************************************************************)
\* the characters of each wire name used by the endpoint declarations
KeyOrds ==
    [an |-> <<97, 110>>, brd |-> <<98, 114, 100>>, cip |-> <<99, 105, 112>>,
     en |-> <<101, 110>>, i01 |-> <<105, 48, 49>>, i02 |-> <<105, 48, 50>>,
     i03 |-> <<105, 48, 51>>, i04 |-> <<105, 48, 52>>,
     i05 |-> <<105, 48, 53>>, i06 |-> <<105, 48, 54>>,
     i07 |-> <<105, 48, 55>>, i08 |-> <<105, 48, 56>>,
     i09 |-> <<105, 48, 57>>, i0a |-> <<105, 48, 97>>,
     i0b |-> <<105, 48, 98>>, i0c |-> <<105, 48, 99>>,
     i0d |-> <<105, 48, 100>>, i0e |-> <<105, 48, 101>>,
     i0f |-> <<105, 48, 102>>, i10 |-> <<105, 49, 48>>,
     i11 |-> <<105, 49, 49>>, i12 |-> <<105, 49, 50>>,
     i13 |-> <<105, 49, 51>>, i14 |-> <<105, 49, 52>>,
     i15 |-> <<105, 49, 53>>, i16 |-> <<105, 49, 54>>,
     i17 |-> <<105, 49, 55>>, i18 |-> <<105, 49, 56>>,
     i19 |-> <<105, 49, 57>>, i1a |-> <<105, 49, 97>>,
     i1b |-> <<105, 49, 98>>, i1c |-> <<105, 49, 99>>,
     i1d |-> <<105, 49, 100>>, i1e |-> <<105, 49, 101>>,
     i1f |-> <<105, 49, 102>>, i20 |-> <<105, 50, 48>>,
     i21 |-> <<105, 50, 49>>, i22 |-> <<105, 50, 50>>,
     i23 |-> <<105, 50, 51>>, i24 |-> <<105, 50, 52>>,
     i25 |-> <<105, 50, 53>>, i26 |-> <<105, 50, 54>>,
     i27 |-> <<105, 50, 55>>, i28 |-> <<105, 50, 56>>,
     i29 |-> <<105, 50, 57>>, i2a |-> <<105, 50, 97>>,
     i2b |-> <<105, 50, 98>>, i2c |-> <<105, 50, 99>>, id |-> <<105, 100>>,
     ip |-> <<105, 112>>, iptp |-> <<105, 112, 116, 112>>,
     lnk |-> <<108, 110, 107>>, mac |-> <<109, 97, 99>>, nm |-> <<110, 109>>,
     p1c |-> <<112, 49, 99>>, p1p |-> <<112, 49, 112>>,
     p1v |-> <<112, 49, 118>>, p2c |-> <<112, 50, 99>>,
     p2p |-> <<112, 50, 112>>, p2v |-> <<112, 50, 118>>,
     rev |-> <<114, 101, 118>>, sid |-> <<115, 105, 100>>,
     spd |-> <<115, 112, 100>>, spdc |-> <<115, 112, 100, 99>>,
     temp |-> <<116, 101, 109, 112>>, upt |-> <<117, 112, 116>>,
     ver |-> <<118, 101, 114>>]

\* a wire name as it is written in wire text
KeyText(name) == KeyOrds[name]

\* a mapping: an ordered sequence of (key, value) items
PyDict(items) == Val("dict", 0, 1, <<>>, items)
IsDict(v) == v.k = "dict"
Item(key, value) == [key |-> key, value |-> value]

\* key in d
HasKey(d, key) == \E i \in 1..Len(d.l) : d.l[i].key = key

\* d.get(key, default)
Get(d, key, default) ==
    IF HasKey(d, key)
    THEN d.l[CHOOSE i \in 1..Len(d.l) : d.l[i].key = key].value
    ELSE default

IsNameOrd(cp) == cp \in 48..57 \/ cp \in 97..122 \/ cp \in 65..90 \/ cp = 95
Count(t, i, cp) == Cardinality({j \in 1..(i - 1) : t[j] = cp})

\* position i of t lies outside every quoted string and every bracketed list
TopLevel(t, i) ==
    /\ Count(t, i, Quote) % 2 = 0
    /\ Count(t, i, LBracket) = Count(t, i, RBracket)

\* t split at its top-level commas
SplitTop(t) ==
    LET cuts == {i \in 1..Len(t) : t[i] = Comma /\ TopLevel(t, i)}
        starts == {1} \cup {i + 1 : i \in cuts}
        End(i) == IF \E j \in cuts : j >= i
                  THEN (CHOOSE j \in cuts : j >= i /\ \A k \in cuts : k >= i => j <= k) - 1
                  ELSE Len(t)
        Nth(n) == CHOOSE i \in starts : Cardinality({j \in starts : j < i}) = n - 1
    IN [n \in 1..Cardinality(starts) |-> SubSeq(t, Nth(n), End(Nth(n)))]

NoParse == Raise("JSONDecodeError")

\* one value of the wire grammar: a 0x literal, a single-quoted string, or a
\* bracketed list of values
RECURSIVE ParseValue(_)
ParseValue(t) ==
    IF Len(t) >= 3 /\ t[1] = Zero /\ t[2] \in {120, 88}
    THEN LET digits == SubSeq(t, 3, Len(t))
         IN IF \A i \in 1..Len(digits) : IsHexOrd(digits[i])
            THEN PyInt(HexValue(digits)) ELSE NoParse
    ELSE IF Len(t) >= 2 /\ t[1] = Quote /\ t[Len(t)] = Quote
    THEN LET chars == SubSeq(t, 2, Len(t) - 1)
         IN IF \A i \in 1..Len(chars) : chars[i] # Quote THEN PyStr(chars) ELSE NoParse
    ELSE IF Len(t) >= 2 /\ t[1] = LBracket /\ t[Len(t)] = RBracket
    THEN LET inner == SubSeq(t, 2, Len(t) - 1)
         IN IF inner = <<>> THEN PyList(<<>>)
            ELSE LET parts == SplitTop(inner)
                 IN MapList(ParseValue, parts)
    ELSE NoParse

\* one "name:value" member of an object
ParseMember(t) ==
    IF \E i \in 1..Len(t) : t[i] = Colon
    THEN LET colon == CHOOSE i \in 1..Len(t) : t[i] = Colon /\ \A j \in 1..(i - 1) : t[j] # Colon
             key == SubSeq(t, 1, colon - 1)
         IN IF key = <<>> \/ \E i \in 1..Len(key) : ~IsNameOrd(key[i]) THEN NoParse
            ELSE LET v == ParseValue(SubSeq(t, colon + 1, Len(t)))
                 IN IF IsExc(v) THEN v ELSE [k |-> "member", key |-> key, value |-> v]
    ELSE NoParse

\* the mapping built from members in order: a repeated key keeps its first
\* position and takes its last value
DictOf(members) ==
    LET n == Len(members)
        firsts == {i \in 1..n : \A j \in 1..(i - 1) : members[j].key # members[i].key}
        Last(key) == CHOOSE i \in 1..n :
                        members[i].key = key /\ \A j \in (i + 1)..n : members[j].key # key
        Nth(m) == CHOOSE i \in firsts : Cardinality({j \in firsts : j < i}) = m - 1
    IN PyDict([m \in 1..Cardinality(firsts) |->
                  Item(members[Nth(m)].key, members[Last(members[Nth(m)].key)].value)])

\* utils.str_to_json on the text of one object: demjson3.decode, which
\* accepts unquoted keys, 0x literals and single-quoted strings
str_to_json(value) ==
    LET t == value.s
    IN IF Len(t) < 2 \/ t[1] # LBrace \/ t[Len(t)] # RBrace THEN NoParse
       ELSE LET inner == SubSeq(t, 2, Len(t) - 1)
            IN IF inner = <<>> THEN PyDict(<<>>)
               ELSE LET parts == SplitTop(inner)
                        members == [i \in 1..Len(parts) |-> ParseMember(parts[i])]
                    IN IF \E i \in 1..Len(members) : IsExc(members[i])
                       THEN NoParse
                       ELSE DictOf(members)

\* t split at the commas that lie outside every string, list and object
SplitObjects(t) ==
    LET cuts == {i \in 1..Len(t) :
                    /\ t[i] = Comma
                    /\ TopLevel(t, i)
                    /\ Count(t, i, LBrace) = Count(t, i, RBrace)}
        starts == {1} \cup {i + 1 : i \in cuts}
        End(i) == IF \E j \in cuts : j >= i
                  THEN (CHOOSE j \in cuts : j >= i /\ \A k \in cuts : k >= i => j <= k) - 1
                  ELSE Len(t)
        Nth(n) == CHOOSE i \in starts : Cardinality({j \in starts : j < i}) = n - 1
    IN [n \in 1..Cardinality(starts) |-> SubSeq(t, Nth(n), End(Nth(n)))]

ParseObject(t) == str_to_json(PyStr(t))

\* utils.str_to_json on the text of an array of objects
str_to_json_array(value) ==
    IF Len(value.s) < 2 \/ value.s[1] # LBracket \/ value.s[Len(value.s)] # RBracket
    THEN NoParse
    ELSE IF Len(value.s) = 2 THEN PyList(<<>>)
    ELSE MapList(ParseObject, SplitObjects(SubSeq(value.s, 2, Len(value.s) - 1)))

(***************************************************************************)
(* endpoint.py: the record codec                                           *)
(***************************************************************************)
\* an instance of endpoint class c with the attribute values attrs
Obj(c, attrs) == [k |-> "obj", cls |-> c, f |-> attrs]
IsObj(v) == v.k = "obj"

\* the first exception in xs, in order
FirstExc(xs) == xs[CHOOSE i \in 1..Len(xs) : IsExc(xs[i]) /\ \A j \in 1..(i - 1) : ~IsExc(xs[j])]

\* per-element application when the wire value is a list (the isinstance branches)
Each(F(_), value) == IF IsList(value) THEN MapList(F, value.l) ELSE F(value)

\* _parse_dict line 82: the value under the first alias that is a key
FirstAlias(names, json_data) ==
    IF \E i \in 1..Len(names) : HasKey(json_data, KeyText(names[i]))
    THEN Get(json_data,
             KeyText(names[CHOOSE i \in 1..Len(names) :
                               /\ HasKey(json_data, KeyText(names[i]))
                               /\ \A j \in 1..(i - 1) :
                                      ~HasKey(json_data, KeyText(names[j]))]),
             None)
    ELSE None

\* v & 0xFFFFFFFF; a value below 2**31 is its own low word
Low32(n) == IF n >= 0 THEN n ELSE n % Pow2(32)

\* lo + hi * 2**32 of the uint64 case
Uint64(lo, hi) ==
    IF ~IsNumber(lo) \/ ~IsNumber(hi) THEN Raise("TypeError")
    ELSE IF hi.n = 0 THEN PyInt(lo.n)
    ELSE PyInt(lo.n + hi.n * Pow2(32))

\* the match statement of _parse_dict for one field whose value is present
Transform(f, value, json_data, port_count) ==
    CASE f.type = "bool" ->
            hex_to_bool_list(value, IF f.ports # -1 THEN f.ports ELSE port_count)
      [] f.type = "scalar_bool" -> PyBool(Truthy(value))
      [] f.type = "int" -> process_int(value, f.signed, f.bits, f.scaleN, f.scaleD)
      [] f.type = "uint64" ->
            LET high_value == Get(json_data, KeyText(f.high), PyInt(0))
            IN IF IsList(value)
               THEN LET n == IF IsList(high_value)
                             THEN Min(Len(value.l), Len(high_value.l))
                             ELSE Len(value.l)
                        Hi(i) == IF IsList(high_value) THEN high_value.l[i] ELSE PyInt(0)
                        sums == [i \in 1..n |-> Uint64(value.l[i], Hi(i))]
                    IN IF \E i \in 1..n : IsExc(sums[i]) THEN FirstExc(sums)
                       ELSE PyList(sums)
               ELSE Uint64(value, high_value)
      [] f.type = "str" -> Each(hex_to_str, value)
      [] f.type = "option" ->
            LET ToOption(v) == hex_to_option(v, f.options) IN Each(ToOption, value)
      [] f.type = "bool_option" ->
            hex_to_bool_option(value, f.options,
                               IF f.ports # -1 THEN f.ports ELSE port_count)
      [] f.type = "bitshift_option" ->
            hex_to_bitshift_option(value, Get(json_data, KeyText(f.pair), PyInt(0)),
                                   f.options,
                                   IF f.ports # -1 THEN f.ports ELSE port_count)
      [] f.type = "mac" -> hex_to_mac(value)
      [] f.type = "partner_mac" -> Each(hex_to_partner_mac, value)
      [] f.type = "ip" -> hex_to_ip(value)
      [] f.type = "partner_ip" -> Each(hex_to_partner_ip, value)
      [] f.type = "sfp_type" -> Each(hex_to_sfp_type, value)
      [] f.type = "dbm" ->
            LET ToDbm(v) == hex_to_dbm(v, IF f.scaleD # 0 THEN f.scaleN ELSE DbmScale)
            IN Each(ToDbm, value)

_parse_dict(c, json_data, port_count) ==
    LET fs == fields(c)
        raw == [i \in 1..Len(fs) |-> FirstAlias(fs[i].name, json_data)]
        result == [i \in 1..Len(fs) |->
                      IF IsNone(raw[i]) THEN None
                      ELSE Transform(fs[i], raw[i], json_data, port_count)]
        Index(fname) == CHOOSE i \in 1..Len(fs) : fs[i].fname = fname
    IN IF \E i \in 1..Len(fs) : IsExc(result[i]) THEN FirstExc(result)
       \* cls(**result): a field declared without a default must be in result
       ELSE IF \E i \in 1..Len(fs) : fs[i].required /\ IsNone(raw[i])
       THEN Raise("TypeError")
       ELSE Obj(c, [fname \in FieldNames(c) |-> result[Index(fname)]])

DefaultPortCount == 10

\* the length of the first list among the values, 10 when there is none or
\* it is empty
PortCount(json_data) ==
    LET arrays == {i \in 1..Len(json_data.l) : IsList(json_data.l[i].value)}
        first_arr == IF arrays = {} THEN None
                     ELSE json_data.l[CHOOSE i \in arrays : \A j \in arrays : i <= j].value
    IN IF Truthy(first_arr) THEN Len(first_arr.l) ELSE DefaultPortCount

readDataclass(c, data) ==
    LET json_data == str_to_json(data)
    IN IF IsExc(json_data) THEN json_data
       ELSE _parse_dict(c, json_data, PortCount(json_data))

\* lines 256-260: the port count of the first entry is used for every entry
ParseEntries(c, json_array) ==
    IF IsExc(json_array) THEN json_array
    ELSE IF json_array.l = <<>> THEN PyList(<<>>)
    ELSE LET Entry(json_data) == _parse_dict(c, json_data, PortCount(json_array.l[1]))
         IN MapList(Entry, json_array.l)

readListDataclass(c, data) == ParseEntries(c, str_to_json_array(data))

\* a _serialize_field that writes an SFP descriptor as a string
_serialize_field_sfp_as_str(value, f, port_count) ==
    IF IsNone(value) THEN None
    ELSE CASE f.type = "bool" -> bool_list_to_hex(value)
           [] f.type = "scalar_bool" ->
                 PyStr(<<Zero, LetterX, Zero, IF Truthy(value) THEN 49 ELSE 48>>)
           [] f.type = "int" ->
                 LET ToHex(v) == int_to_hex(v, f.scaleN, f.scaleD) IN Each(ToHex, value)
           [] f.type = "uint64" ->
                 LET Low(v) == IF IsNumber(v) THEN int_to_hex(PyInt(Low32(v.n)), 0, 0)
                               ELSE Raise("TypeError")
                 IN Each(Low, value)
           [] f.type = "str" -> Each(str_to_hex, value)
           [] f.type = "option" ->
                 LET ToHex(v) == option_to_hex(v, f.options) IN Each(ToHex, value)
           [] f.type = "bool_option" ->
                 IF ~IsList(value) THEN Raise("TypeError")
                 ELSE LET xs == value.l
                          Bit(i) == IF xs[i] = PyStr(f.options[2]) THEN Pow2(i - 1) ELSE 0
                          RECURSIVE Sum(_)
                          Sum(i) == IF i = 0 THEN 0 ELSE Bit(i) + Sum(i - 1)
                          bitmask == Sum(Len(xs))
                      IN IF bitmask = 0 THEN PyStr(ZeroX00)
                         ELSE PyStr(ZeroX \o HexOf(bitmask))
           [] f.type = "bitshift_option" -> None
           [] f.type \in {"mac", "partner_mac"} -> Each(mac_to_hex, value)
           [] f.type \in {"ip", "partner_ip"} -> Each(ip_to_hex, value)
           [] f.type = "sfp_type" -> Each(str_to_hex, value)
           [] f.type = "dbm" -> None
           [] OTHER -> None

_serialize_field(value, f, port_count) ==
    IF IsNone(value) THEN None
    ELSE CASE f.type = "bool" -> bool_list_to_hex(value)
           [] f.type = "scalar_bool" ->
                 PyStr(<<Zero, LetterX, Zero, IF Truthy(value) THEN 49 ELSE 48>>)
           [] f.type = "int" ->
                 LET ToHex(v) == int_to_hex(v, f.scaleN, f.scaleD) IN Each(ToHex, value)
           [] f.type = "uint64" ->
                 LET Low(v) == IF IsNumber(v) THEN int_to_hex(PyInt(Low32(v.n)), 0, 0)
                               ELSE Raise("TypeError")
                 IN Each(Low, value)
           [] f.type = "str" -> Each(str_to_hex, value)
           [] f.type = "option" ->
                 LET ToHex(v) == option_to_hex(v, f.options) IN Each(ToHex, value)
           [] f.type = "bool_option" ->
                 IF ~IsList(value) THEN Raise("TypeError")
                 ELSE LET xs == value.l
                          Bit(i) == IF xs[i] = PyStr(f.options[2]) THEN Pow2(i - 1) ELSE 0
                          RECURSIVE Sum(_)
                          Sum(i) == IF i = 0 THEN 0 ELSE Bit(i) + Sum(i - 1)
                          bitmask == Sum(Len(xs))
                      IN IF bitmask = 0 THEN PyStr(ZeroX00)
                         ELSE PyStr(ZeroX \o HexOf(bitmask))
           [] f.type = "bitshift_option" -> None
           [] f.type \in {"mac", "partner_mac"} -> Each(mac_to_hex, value)
           [] f.type \in {"ip", "partner_ip"} -> Each(ip_to_hex, value)
           [] f.type \in {"sfp_type", "dbm"} -> None
           [] OTHER -> None

\* what _serialize_field returned as it stands in the wire text: a list of
\* tokens becomes the bracketed list
WireToken(encoded) ==
    IF IsList(encoded)
    THEN <<LBracket>>
         \o Join(<<Comma>>, [i \in 1..Len(encoded.l) |-> encoded.l[i].s])
         \o <<RBracket>>
    ELSE encoded.s

\* a part that writes the items of a list last to first
WirePart_reversed(item) ==
    IF IsList(item.value)
    THEN item.key \o <<Colon, LBracket>>
         \o Join(<<Comma>>, [i \in 1..Len(item.value.l) |->
                                 item.value.l[Len(item.value.l) + 1 - i].s])
         \o <<RBracket>>
    ELSE item.key \o <<Colon>> \o item.value.s

\* one "key:value" or "key:[v,...]" part of _build_wire_format
WirePart(item) ==
    IF IsList(item.value)
    THEN item.key \o <<Colon, LBracket>>
         \o Join(<<Comma>>, [i \in 1..Len(item.value.l) |-> item.value.l[i].s])
         \o <<RBracket>>
    ELSE item.key \o <<Colon>> \o item.value.s

\* a _build_wire_format that writes the keys in double quotes, as JSON does
_build_wire_format_json(fields_dict) ==
    PyStr(<<LBrace>>
          \o Join(<<Comma>>, [i \in 1..Len(fields_dict) |->
                                  <<34>> \o fields_dict[i].key \o <<34, Colon>>
                                  \o WireToken(fields_dict[i].value)])
          \o <<RBrace>>)

_build_wire_format(fields_dict) ==
    PyStr(<<LBrace>>
          \o Join(<<Comma>>, [i \in 1..Len(fields_dict) |-> WirePart(fields_dict[i])])
          \o <<RBrace>>)

\* writeDataclass, which endpoint.py of this tree does not define: after the
\* encode operation of the specification and tests/test_serialization.py.
\* Read-only endpoints are refused; only writable fields holding a value
\* are emitted, under the alias chosen by field_variant (the first alias
\* when the field has no such variant).
writeDataclass(endpoint, field_variant) ==
    IF ~IsObj(endpoint) THEN Raise("TypeError")
    ELSE IF endpoint_readonly(endpoint.cls) THEN Raise("ValueError")
    ELSE LET fs == fields(endpoint.cls)
             wire_value == [i \in 1..Len(fs) |->
                               IF fs[i].writable
                               THEN _serialize_field(endpoint.f[fs[i].fname], fs[i],
                                                     DefaultPortCount)
                               ELSE None]
             Name(i) == IF field_variant < Len(fs[i].name)
                        THEN fs[i].name[field_variant + 1] ELSE fs[i].name[1]
             written == SelectSeq([i \in 1..Len(fs) |-> i],
                                  LAMBDA i : ~IsNone(wire_value[i]))
             fields_dict == DictOf([j \in 1..Len(written) |->
                                       Item(KeyText(Name(written[j])),
                                            wire_value[written[j]])])
         IN IF \E i \in 1..Len(fs) : IsExc(wire_value[i])
            THEN FirstExc(wire_value)
            ELSE _build_wire_format(fields_dict.l)

(***************************************************************************)
(* validation.py                                                           *)
(*                                                                         *)
(* An error string is kept as the record of the parts it is formatted      *)
(* from: field name, element index (-1 for a scalar field), the kind of    *)
(* violation, the value shown, and the numbers quoted.                     *)
(***************************************************************************)
Error(field_name, index, kind, shown, observed, limit) ==
    [field |-> field_name, index |-> index, kind |-> kind, shown |-> shown,
     observed |-> observed, limit |-> limit]

DefaultMaxLength == 15
ShownLength == 20

\* v[:20] + "..." if len(v) > 20 else v
Truncated(cps) ==
    IF Len(cps) > ShownLength THEN SubSeq(cps, 1, ShownLength) \o <<Dot, Dot, Dot>>
    ELSE cps

\* a check that counts characters
StrErrors_characters(field_name, index, v, max_length) ==
    IF ~IsStr(v) THEN <<>>
    ELSE IF Len(v.s) > max_length
    THEN <<Error(field_name, index, "str", PyStr(Truncated(v.s)), Len(v.s), max_length)>>
    ELSE <<>>

\* the errors of one element (index -1: the scalar value itself)
StrErrors(field_name, index, v, max_length) ==
    IF ~IsStr(v) THEN <<>>
    ELSE LET byte_len == Len(Utf8Encode(v.s))
         IN IF byte_len > max_length
            THEN <<Error(field_name, index, "str", PyStr(Truncated(v.s)),
                         byte_len, max_length)>>
            ELSE <<>>

_validate_str(field_name, value, f) ==
    LET max_length == IF f.max_length # -1 THEN f.max_length ELSE DefaultMaxLength
    IN IF IsList(value)
       THEN Concat([i \in 1..Len(value.l) |->
                       StrErrors(field_name, i - 1, value.l[i], max_length)])
       ELSE StrErrors(field_name, -1, value, max_length)

\* a check whose bounds are exclusive
IntErrors_exclusive(field_name, index, v, f) ==
    IF ~IsNumber(v) THEN <<>>
    ELSE (IF f.hasMin /\ v.n <= f.min * v.d
          THEN <<Error(field_name, index, "below", v, 0, f.min)>> ELSE <<>>)
         \o (IF f.hasMax /\ v.n >= f.max * v.d
             THEN <<Error(field_name, index, "above", v, 0, f.max)>> ELSE <<>>)

IntErrors(field_name, index, v, f) ==
    IF ~IsNumber(v) THEN <<>>
    ELSE (IF f.hasMin /\ v.n < f.min * v.d
          THEN <<Error(field_name, index, "below", v, 0, f.min)>> ELSE <<>>)
         \o (IF f.hasMax /\ v.n > f.max * v.d
             THEN <<Error(field_name, index, "above", v, 0, f.max)>> ELSE <<>>)

_validate_int(field_name, value, f) ==
    IF ~f.hasMin /\ ~f.hasMax THEN <<>>
    ELSE IF IsList(value)
    THEN Concat([i \in 1..Len(value.l) |-> IntErrors(field_name, i - 1, value.l[i], f)])
    ELSE IntErrors(field_name, -1, value, f)

OptionErrors(field_name, index, v, options) ==
    IF \E i \in 1..Len(options) : PyStr(options[i]) = v THEN <<>>
    ELSE <<Error(field_name, index, "option", v, 0, 0)>>

_validate_option(field_name, value, f) ==
    IF f.options = <<>> THEN <<>>
    ELSE IF IsList(value)
    THEN Concat([i \in 1..Len(value.l) |->
                    OptionErrors(field_name, i - 1, value.l[i], f.options)])
    ELSE OptionErrors(field_name, -1, value, f.options)

\* a loop body that checks the non-writable fields too
FieldErrors_all_fields(instance, f) ==
    LET value == instance.f[f.fname]
    IN IF IsNone(value) THEN <<>>
       ELSE CASE f.type = "str" -> _validate_str(f.fname, value, f)
              [] f.type = "int" -> _validate_int(f.fname, value, f)
              [] f.type = "option" -> _validate_option(f.fname, value, f)
              [] OTHER -> <<>>

\* the errors contributed by one field
FieldErrors(instance, f) ==
    LET value == instance.f[f.fname]
    IN IF ~f.writable \/ IsNone(value) THEN <<>>
       ELSE CASE f.type = "str" -> _validate_str(f.fname, value, f)
              [] f.type = "int" -> _validate_int(f.fname, value, f)
              [] f.type = "option" -> _validate_option(f.fname, value, f)
              [] OTHER -> <<>>

\* the one error returned for an instance that is no dataclass
NotADataclass == Error("", -1, "not_a_dataclass", None, 0, 0)

validate_dataclass(instance) ==
    IF ~IsObj(instance) THEN <<NotADataclass>>
    ELSE LET fs == fields(instance.cls)
         IN Concat([i \in 1..Len(fs) |-> FieldErrors(instance, fs[i])])

(***************************************************************************)
(* Records a caller can hold                                               *)
(***************************************************************************)
Text_public == <<112, 117, 98, 108, 105, 99>>      \* "public"
Text_A == <<65>>                                       \* "A"
Text_Uplink == <<85, 112, 108, 105, 110, 107>>         \* "Uplink"
Text_B == <<66>>                                       \* "B"
TextTrailingSpace == <<65, 32>>                        \* "A "
TextMax == [i \in 1..DefaultMaxLength |-> 65]          \* 15 bytes, 15 characters
TextOver == [i \in 1..(DefaultMaxLength + 1) |-> 65]   \* 16 bytes
TextEuroOver == [i \in 1..6 |-> 8364]                  \* 18 bytes in 6 characters

Ip_192_168_88_1 == <<49, 57, 50, 46, 49, 54, 56, 46, 56, 56, 46, 49>>     \* "192.168.88.1"
Ip_0_0_0_0 == <<48, 46, 48, 46, 48, 46, 48>>                 \* "0.0.0.0"
Ip_short == <<49, 46, 50>>                             \* "1.2", not an address
Mac_sample == <<65, 65, 58, 66, 66, 58, 67, 67, 58, 68, 68, 58, 69, 69, 58, 55, 70>>   \* "AA:BB:CC:DD:EE:7F"
Option_STATIC == AddressAcquisition[2]
Option_PPPOE == <<80, 80, 80, 111, 69>>                \* "PPPoE", not an option
Option_long == PortCostMode[2]
Option_v3 == IgmpVersion[2]
Option_1G == Speed[3]
Option_50G == <<53, 48, 71>>                           \* "50G", not an option

\* a list of n values, the i-th given by F
ListOf(n, F(_)) == PyList([i \in 1..n |-> F(i)])
AllNone(c) == [fname \in FieldNames(c) |-> None]
\* the record r with the attributes of s replaced
Override(r, s) == [fname \in DOMAIN r |-> IF fname \in DOMAIN s THEN s[fname] ELSE r[fname]]

SnmpRecords ==
    {Obj("SnmpEndpoint",
         [enabled |-> PyBool(e), community |-> PyStr(c), contact_info |-> PyStr(i),
          location |-> PyStr(l)]) :
        e \in BOOLEAN, c \in {Text_public, TextOver, TextTrailingSpace},
        i \in {<<>>, TextEuroOver}, l \in {TextMax, TextOver}}

\* the optional attributes of a SystemEndpoint, all set
SystemOptional ==
    [bridge_priority |-> PyInt(32768), forward_reserved_multicast |-> True,
     port_cost_mode |-> PyStr(Option_long), allow_from_ip |-> PyStr(Ip_0_0_0_0),
     allow_from_mask |-> PyInt(24), allow_from_ports |-> PyList(<<True, False>>),
     allow_from_vlan |-> PyInt(1), igmp_snooping |-> False, igmp_querier |-> True,
     igmp_fast_leave |-> PyList(<<False, True>>), igmp_version |-> PyStr(Option_v3),
     mikrotik_discovery_protocol |-> PyList(<<True, True>>),
     dhcp_snooping_trusted_ports |-> PyList(<<False, False>>),
     dhcp_snooping_add_info_option |-> False, uptime |-> PyInt(100),
     cpu_temp |-> PyInt(-5), psu1_voltage |-> PyFloat(241, 100)]

SystemRecords ==
    {Obj("SystemEndpoint",
         LET required == Override(AllNone("SystemEndpoint"),
                             [address_acquisition |-> PyStr(a), static_ip |-> PyStr(s),
                              ip |-> PyStr(Ip_192_168_88_1), identity |-> PyStr(i),
                              serial |-> PyStr(Text_A), mac |-> PyStr(Mac_sample),
                              model |-> PyStr(Text_B), version |-> PyStr(Text_A)])
         IN IF o THEN Override(required, SystemOptional) ELSE required) :
        a \in {Option_STATIC, Option_PPPOE}, s \in {Ip_192_168_88_1, Ip_short},
        i \in {Text_A, TextOver}, o \in BOOLEAN}

\* per-port records: any number of ports up to MaxPorts
PortCounts == 0..MaxPorts
Names(n) == [1..n -> {Text_A, TextOver, TextTrailingSpace}]
LinkRecords ==
    {Obj("LinkEndpoint",
         Override(AllNone("LinkEndpoint"),
                  [enabled |-> ListOf(n, LAMBDA i : PyBool(i % 2 = 1)),
                   name |-> ListOf(n, LAMBDA i : PyStr(nm[i])),
                   link_state |-> ListOf(n, LAMBDA i : True),
                   man_speed |-> sp])) :
        <<n, nm, sp>> \in
            UNION {{<<n, nm, sp>> : nm \in Names(n),
                        sp \in {None, ListOf(n, LAMBDA i : PyStr(Option_1G)),
                                ListOf(n, LAMBDA i : PyStr(Option_50G))}} :
                   n \in PortCounts}}

SfpRecords ==
    {Obj("SfpEndpoint",
         [vendor |-> ListOf(n, LAMBDA i : PyStr(v)),
          part_number |-> ListOf(n, LAMBDA i : PyStr(Text_A)),
          revision |-> ListOf(n, LAMBDA i : PyStr(Text_A)),
          serial |-> ListOf(n, LAMBDA i : PyStr(Text_A)),
          date |-> ListOf(n, LAMBDA i : PyStr(Text_A)),
          type |-> ListOf(n, LAMBDA i : PyStr(Option_1G)),
          temperature |-> ListOf(n, LAMBDA i : PyInt(25)),
          voltage |-> ListOf(n, LAMBDA i : PyFloat(33, 10)),
          tx_bias |-> ListOf(n, LAMBDA i : PyInt(10)),
          tx_power |-> ListOf(n, LAMBDA i : PyFloat(0, 1)),
          rx_power |-> ListOf(n, LAMBDA i : PyFloat(0, 1))]) :
        n \in PortCounts, v \in {Text_A, TextOver}}

StatsRecords ==
    {Obj("StatsEndpoint",
         [fname \in FieldNames("StatsEndpoint") |-> ListOf(n, LAMBDA i : PyInt(0))]) :
        n \in PortCounts}

\* the records of class c a caller may pass to save
Records(c) ==
    CASE c = "SnmpEndpoint" -> SnmpRecords
      [] c = "SystemEndpoint" -> SystemRecords
      [] c = "SfpEndpoint" -> SfpRecords
      [] c = "StatsEndpoint" -> StatsRecords
      [] c = "LinkEndpoint" -> LinkRecords

(***************************************************************************)
(* The transport's answers                                                 *)
(***************************************************************************)
\* {i01:0x01,i02:'7075626c6963',i03:'',i04:'4120'}
SnmpFull ==
    <<123, 105, 48, 49, 58, 48, 120, 48, 49, 44, 105, 48, 50, 58, 39, 55,
    48, 55, 53, 54, 50, 54, 99, 54, 57, 54, 51, 39, 44, 105, 48, 51, 58, 39,
    39, 44, 105, 48, 52, 58, 39, 52, 49, 50, 48, 39, 125>>

\* {i01:0x01}
SnmpPartial ==
    <<123, 105, 48, 49, 58, 48, 120, 48, 49, 125>>

\* {i01:0x01,i02:'41'
SnmpCut ==
    <<123, 105, 48, 49, 58, 48, 120, 48, 49, 44, 105, 48, 50, 58, 39, 52,
    49, 39>>

\* {iptp:0x01,i0a:0x02,ip:0x0158a8c0,cip:0x0158a8c0,id:'41',sid:'41',mac:'aabbccddee7f',brd:'42',ver:'41',temp:0xfffb,p1v:0xf1}
SystemBothAliases ==
    <<123, 105, 112, 116, 112, 58, 48, 120, 48, 49, 44, 105, 48, 97, 58, 48,
    120, 48, 50, 44, 105, 112, 58, 48, 120, 48, 49, 53, 56, 97, 56, 99, 48,
    44, 99, 105, 112, 58, 48, 120, 48, 49, 53, 56, 97, 56, 99, 48, 44, 105,
    100, 58, 39, 52, 49, 39, 44, 115, 105, 100, 58, 39, 52, 49, 39, 44, 109,
    97, 99, 58, 39, 97, 97, 98, 98, 99, 99, 100, 100, 101, 101, 55, 102, 39,
    44, 98, 114, 100, 58, 39, 52, 50, 39, 44, 118, 101, 114, 58, 39, 52, 49,
    39, 44, 116, 101, 109, 112, 58, 48, 120, 102, 102, 102, 98, 44, 112, 49,
    118, 58, 48, 120, 102, 49, 125>>

\* {i0a:0x02,i09:0x0158a8c0,i02:0x0158a8c0,i05:'41',i04:'41',i03:'aabbccddee7f',i07:'42',i06:'41',i12:0x01}
SystemLiteAliases ==
    <<123, 105, 48, 97, 58, 48, 120, 48, 50, 44, 105, 48, 57, 58, 48, 120,
    48, 49, 53, 56, 97, 56, 99, 48, 44, 105, 48, 50, 58, 48, 120, 48, 49,
    53, 56, 97, 56, 99, 48, 44, 105, 48, 53, 58, 39, 52, 49, 39, 44, 105,
    48, 52, 58, 39, 52, 49, 39, 44, 105, 48, 51, 58, 39, 97, 97, 98, 98, 99,
    99, 100, 100, 101, 101, 55, 102, 39, 44, 105, 48, 55, 58, 39, 52, 50,
    39, 44, 105, 48, 54, 58, 39, 52, 49, 39, 44, 105, 49, 50, 58, 48, 120,
    48, 49, 125>>

\* {id:'41'}
SystemPartial ==
    <<123, 105, 100, 58, 39, 52, 49, 39, 125>>

\* {en:0x01,nm:['41','4120'],an:0x03,spd:[0x02,0x07]}
LinkFull ==
    <<123, 101, 110, 58, 48, 120, 48, 49, 44, 110, 109, 58, 91, 39, 52, 49,
    39, 44, 39, 52, 49, 50, 48, 39, 93, 44, 97, 110, 58, 48, 120, 48, 51,
    44, 115, 112, 100, 58, 91, 48, 120, 48, 50, 44, 48, 120, 48, 55, 93,
    125>>

\* {i01:0x02,i0a:['41','42'],i06:0x03}
LinkLite ==
    <<123, 105, 48, 49, 58, 48, 120, 48, 50, 44, 105, 48, 97, 58, 91, 39,
    52, 49, 39, 44, 39, 52, 50, 39, 93, 44, 105, 48, 54, 58, 48, 120, 48,
    51, 125>>

\* {i01:0x03,i0a:['506f727431','506f727432']}
LinkExample ==
    <<123, 105, 48, 49, 58, 48, 120, 48, 51, 44, 105, 48, 97, 58, 91, 39,
    53, 48, 54, 102, 55, 50, 55, 52, 51, 49, 39, 44, 39, 53, 48, 54, 102,
    55, 50, 55, 52, 51, 50, 39, 93, 125>>

\* {i01:0x07,i0a:['5031','5032','5033']}
LinkThreePorts ==
    <<123, 105, 48, 49, 58, 48, 120, 48, 55, 44, 105, 48, 97, 58, 91, 39,
    53, 48, 51, 49, 39, 44, 39, 53, 48, 51, 50, 39, 44, 39, 53, 48, 51, 51,
    39, 93, 125>>

\* {i01:0x03,i0a:['55706c696e6b','506f727432']}
LinkExampleRenamed ==
    <<123, 105, 48, 49, 58, 48, 120, 48, 51, 44, 105, 48, 97, 58, 91, 39,
    53, 53, 55, 48, 54, 99, 54, 57, 54, 101, 54, 98, 39, 44, 39, 53, 48,
    54, 102, 55, 50, 55, 52, 51, 50, 39, 93, 125>>

\* {i01:0x07,i0a:['41','42']}
LinkWideMask ==
    <<123, 105, 48, 49, 58, 48, 120, 48, 55, 44, 105, 48, 97, 58, 91, 39,
    52, 49, 39, 44, 39, 52, 50, 39, 93, 125>>

\* {i01:0x01,i0a:['41','42'],i05:[0x02]}
LinkUneven ==
    <<123, 105, 48, 49, 58, 48, 120, 48, 49, 44, 105, 48, 97, 58, 91, 39,
    52, 49, 39, 44, 39, 52, 50, 39, 93, 44, 105, 48, 53, 58, 91, 48, 120,
    48, 50, 93, 125>>

\* {i01:0x03,i0a:'41'}
LinkNoArray ==
    <<123, 105, 48, 49, 58, 48, 120, 48, 51, 44, 105, 48, 97, 58, 39, 52,
    49, 39, 125>>

\* {i01:0x01,i0a:[],i05:[0x02,0x07]}
LinkEmptyFirst ==
    <<123, 105, 48, 49, 58, 48, 120, 48, 49, 44, 105, 48, 97, 58, 91, 93,
    44, 105, 48, 53, 58, 91, 48, 120, 48, 50, 44, 48, 120, 48, 55, 93, 125>>

\* []
ListNone ==
    <<91, 93>>

\* [{i01:0x01,i0a:['41','42']},{i01:0x01,i0a:['41','42','43']}]
ListTwo ==
    <<91, 123, 105, 48, 49, 58, 48, 120, 48, 49, 44, 105, 48, 97, 58, 91,
    39, 52, 49, 39, 44, 39, 52, 50, 39, 93, 125, 44, 123, 105, 48, 49, 58,
    48, 120, 48, 49, 44, 105, 48, 97, 58, 91, 39, 52, 49, 39, 44, 39, 52,
    50, 39, 44, 39, 52, 51, 39, 93, 125, 93>>

\* [{i01:0x01,i0a:'41'},{i01:0x01,i0a:['41','42']}]
ListNoArrayFirst ==
    <<91, 123, 105, 48, 49, 58, 48, 120, 48, 49, 44, 105, 48, 97, 58, 39,
    52, 49, 39, 125, 44, 123, 105, 48, 49, 58, 48, 120, 48, 49, 44, 105,
    48, 97, 58, 91, 39, 52, 49, 39, 44, 39, 52, 50, 39, 93, 125, 93>>

\* [{i01:0x01,i0a:[]},{i01:0x01,i0a:['41']}]
ListEmptyFirst ==
    <<91, 123, 105, 48, 49, 58, 48, 120, 48, 49, 44, 105, 48, 97, 58, 91,
    93, 125, 44, 123, 105, 48, 49, 58, 48, 120, 48, 49, 44, 105, 48, 97,
    58, 91, 39, 52, 49, 39, 93, 125, 93>>

\* {nm:['41']}
LinkPartial ==
    <<123, 110, 109, 58, 91, 39, 52, 49, 39, 93, 125>>

\* error
ErrorPage ==
    <<101, 114, 114, 111, 114>>

MessageLength == 200
\* a body longer than the part SaveError quotes in its message
LongPage == [i \in 1..(MessageLength + 1) |-> 120]

Statuses == {200, 204, 404, 500}

\* response bodies a device may give to a GET of class c
Bodies(c) ==
    {<<>>, ErrorPage} \cup
    (CASE c = "SnmpEndpoint" -> {SnmpFull, SnmpPartial, SnmpCut}
       [] c = "SystemEndpoint" -> {SystemBothAliases, SystemLiteAliases, SystemPartial}
       [] c = "LinkEndpoint" -> {LinkFull, LinkLite, LinkPartial}
       [] OTHER -> {})

\* response bodies a device may give to a POST
PostBodies == {<<>>, ErrorPage, LongPage}

(***************************************************************************)
(* exceptions.py and the errors client.py raises                           *)
(***************************************************************************)
NoOutcome == [type |-> "none"]
Returned == [type |-> "ok"]
\* an exception that escapes the call unchanged
Propagated(exc) == [type |-> exc.k]

\* ValueError(f"{cls.__name__} is a read-only endpoint")
ReadOnlyError(c) ==
    [type |-> "ValueError", message |-> <<c, " is a read-only endpoint">>]

First(xs, n) == SubSeq(xs, 1, Min(n, Len(xs)))

\* a ValidationError that keeps the first violation only
ValidationError_first(errs) ==
    [type |-> "ValidationError", errors |-> First(errs, 1),
     message |-> [count |-> Len(errs), shown |-> First(errs, 3),
                  suffix |-> IF Len(errs) > 3 THEN "..." ELSE ""]]

ValidationError(errs) ==
    [type |-> "ValidationError", errors |-> errs,
     message |-> [count |-> Len(errs), shown |-> First(errs, 3),
                  suffix |-> IF Len(errs) > 3 THEN "..." ELSE ""]]

\* a SaveError whose response_text is cut like the text of its message
SaveError_truncated(status_code, response_text, url, endpoint_name) ==
    [type |-> "SaveError", status_code |-> status_code,
     response_text |-> First(response_text, MessageLength), url |-> url,
     endpoint_name |-> endpoint_name,
     message |-> [endpoint_name |-> endpoint_name, status_code |-> status_code,
                  text |-> First(response_text, MessageLength)]]

SaveError(status_code, response_text, url, endpoint_name) ==
    [type |-> "SaveError", status_code |-> status_code,
     response_text |-> response_text, url |-> url, endpoint_name |-> endpoint_name,
     message |-> [endpoint_name |-> endpoint_name, status_code |-> status_code,
                  text |-> First(response_text, MessageLength)]]

(***************************************************************************)
(* client.py                                                               *)
(***************************************************************************)
Host == "http://192.168.88.1/"
urljoin(host, path) == [host |-> host, path |-> path]
Request(method, url, data) == [method |-> method, url |-> url, body |-> data]
NoResponse == [status |-> 0, text |-> <<>>]
Response(status, text) == [status |-> status, text |-> text]

\* the response object's raise_for_status(), which python_switchos/http.py
\* (not in this tree) provides: the success status is 200
raise_for_status(resp) ==
    IF resp.status # 200 THEN [type |-> "HTTPError", status |-> resp.status]
    ELSE NoOutcome

\* endpoint classes whose decoding is modelled
Fetchable == {"SnmpEndpoint", "SystemEndpoint", "LinkEndpoint"}

\* the calls in flight, and the locals of a call that has not started
CallIds == {1, 2}
Idle ==
    [pc |-> "idle", kind |-> "none", cls |-> "none", arg |-> None, validate |-> TRUE,
     variant |-> 0, body |-> None, response |-> NoResponse, outcome |-> NoOutcome,
     rec |-> None]

Init ==
    /\ pc = "idle"
    /\ cls = "none"
    /\ rec = None
    /\ arg = None
    /\ held = None
    /\ validate = TRUE
    /\ variant = 0
    /\ steps = <<>>
    /\ errors = <<>>
    /\ body = None
    /\ requests = <<>>
    /\ response = NoResponse
    /\ outcome = NoOutcome
    /\ probe = None
    /\ wire = None
    /\ back = None
    /\ stage = "off"
    /\ fld = NoField
    /\ calls = [i \in CallIds |-> Idle]
    /\ traffic = <<>>

\* Client.fetch up to its await of httpClient.get
FetchCall(c) ==
    /\ pc = "idle"
    /\ pc' = "fetch_wait"
    /\ cls' = c
    /\ arg' = None
    /\ held' = None
    /\ steps' = <<"get">>
    /\ errors' = <<>>
    /\ body' = None
    /\ requests' = <<Request("GET", urljoin(Host, endpoint_path(c)), None)>>
    /\ response' = NoResponse
    /\ outcome' = NoOutcome
    /\ UNCHANGED <<rec, validate, variant>>
    /\ UNCHANGED codecVars
    /\ UNCHANGED pairVars

\* a fetch that decodes the body whatever the status
FetchResponse_decode_all(status, text) ==
    /\ pc = "fetch_wait"
    /\ pc' = "done"
    /\ response' = Response(status, text)
    /\ LET decoded == readDataclass(cls, PyStr(text))
       IN /\ steps' = steps \o <<"text", "decode">>
          /\ IF IsExc(decoded)
             THEN outcome' = Propagated(decoded) /\ UNCHANGED rec
             ELSE outcome' = Returned /\ rec' = decoded
    /\ UNCHANGED <<cls, arg, held, validate, variant, errors, body, requests>>
    /\ UNCHANGED codecVars
    /\ UNCHANGED pairVars

\* Client.fetch from the answer to its return
FetchResponse(status, text) ==
    /\ pc = "fetch_wait"
    /\ pc' = "done"
    /\ response' = Response(status, text)
    /\ LET failed == raise_for_status(Response(status, text))
           decoded == readDataclass(cls, PyStr(text))
       IN IF failed # NoOutcome
          THEN /\ outcome' = failed
               /\ steps' = steps \o <<"raise_for_status">>
               /\ UNCHANGED rec
          ELSE /\ steps' = steps \o <<"raise_for_status", "text", "decode">>
               /\ IF IsExc(decoded)
                  THEN outcome' = Propagated(decoded) /\ UNCHANGED rec
                  ELSE outcome' = Returned /\ rec' = decoded
    /\ UNCHANGED <<cls, arg, held, validate, variant, errors, body, requests>>
    /\ UNCHANGED codecVars
    /\ UNCHANGED pairVars

\* records whose "bool_option" field holds its options, and a value that is
\* none of them
EnumRecords ==
    {Obj("MixedEndpoint", Override(AllNone("MixedEndpoint"), [cost_mode |-> PyList(l)])) :
        l \in {<<PyStr(PortCostMode[1]), PyStr(PortCostMode[2])>>,
               <<PyStr(PortCostMode[2]), PyStr(Option_50G)>>,
               <<PyStr(Option_50G)>>}}

\* the records a caller may pass to save: one it built, or the one it fetched
Saveable ==
    (UNION {Records(c) : c \in Classes}) \cup EnumRecords
    \cup (IF IsObj(rec) THEN {rec} ELSE {})

Variants == {0, 1}

\* a save that never refuses an endpoint at its read-only check
ReadonlyCheck_skipped(c) == NoOutcome

\* the endpoint-level read-only check of save
ReadonlyCheck(c) ==
    IF endpoint_readonly(c) THEN ReadOnlyError(c) ELSE NoOutcome

\* a save that validates whatever the caller asked for
Validate_always(endpoint, v) == validate_dataclass(endpoint)

\* the pre-flight validation of save: the errors found, none when it is skipped
Validate(endpoint, v) ==
    IF v THEN validate_dataclass(endpoint) ELSE <<>>

\* a save that clears the fields of the record once they are encoded
AfterSteps_consumed(endpoint, v, field_variant) ==
    IF ReadonlyCheck(endpoint.cls) # NoOutcome \/ Validate(endpoint, v) # <<>>
       \/ IsExc(writeDataclass(endpoint, field_variant))
    THEN endpoint
    ELSE Obj(endpoint.cls, AllNone(endpoint.cls))

\* the caller's record when save has run to its await or to the exception
\* before it: save reads type(endpoint), validate_dataclass and the encoder
\* read the fields with getattr and build new lists, nothing assigns to the
\* record or to a list it holds
AfterSteps(endpoint, v, field_variant) == endpoint

\* Client.save up to its await of httpClient.post
SaveCall(e, v, field_variant) ==
    /\ pc = "idle"
    /\ e \in Saveable
    /\ cls' = e.cls
    /\ arg' = e
    /\ held' = AfterSteps(e, v, field_variant)
    /\ validate' = v
    /\ variant' = field_variant
    /\ response' = NoResponse
    /\ LET c == e.cls
           denied == ReadonlyCheck(c)
           errs == Validate(e, v)
           encoded == writeDataclass(e, field_variant)
           url == urljoin(Host, endpoint_path(c))
       IN IF denied # NoOutcome
          THEN /\ steps' = <<"readonly_check">>
               /\ outcome' = denied
               /\ pc' = "done"
               /\ errors' = <<>>
               /\ body' = None
               /\ requests' = <<>>
          ELSE IF errs # <<>>
          THEN /\ steps' = <<"readonly_check", "validate">>
               /\ outcome' = ValidationError(errs)
               /\ pc' = "done"
               /\ errors' = errs
               /\ body' = None
               /\ requests' = <<>>
          ELSE IF IsExc(encoded)
          THEN /\ steps' = <<"readonly_check">> \o (IF v THEN <<"validate">> ELSE <<>>)
                           \o <<"encode">>
               /\ outcome' = Propagated(encoded)
               /\ pc' = "done"
               /\ errors' = errs
               /\ body' = None
               /\ requests' = <<>>
          ELSE /\ steps' = <<"readonly_check">> \o (IF v THEN <<"validate">> ELSE <<>>)
                           \o <<"encode", "post">>
               /\ outcome' = NoOutcome
               /\ pc' = "save_wait"
               /\ errors' = errs
               /\ body' = encoded
               /\ requests' = <<Request("POST", url, encoded)>>
    /\ UNCHANGED rec
    /\ UNCHANGED codecVars
    /\ UNCHANGED pairVars

\* a save that posts the body again when the answer is not 200
SaveResponse_retry(status, text) ==
    /\ pc = "save_wait"
    /\ pc' = "done"
    /\ response' = Response(status, text)
    /\ steps' = IF status # 200 THEN steps \o <<"status", "post">>
                ELSE Append(steps, "status")
    /\ requests' = IF status # 200 THEN requests \o requests ELSE requests
    /\ outcome' = IF status # 200
                  THEN SaveError(status, text, requests[1].url, cls)
                  ELSE Returned
    /\ UNCHANGED <<cls, rec, arg, held, validate, variant, errors, body>>
    /\ UNCHANGED codecVars
    /\ UNCHANGED pairVars

\* Client.save from the answer to its return
SaveResponse(status, text) ==
    /\ pc = "save_wait"
    /\ pc' = "done"
    /\ response' = Response(status, text)
    /\ steps' = Append(steps, "status")
    /\ outcome' = IF status # 200
                  THEN SaveError(status, text, requests[1].url, cls)
                  ELSE Returned
    /\ UNCHANGED <<cls, rec, arg, held, validate, variant, errors, body, requests>>
    /\ UNCHANGED codecVars
    /\ UNCHANGED pairVars

\* the call's result or exception reaches the caller, which may call again
Return ==
    /\ pc = "done"
    /\ pc' = "idle"
    /\ cls' = "none"
    /\ arg' = None
    /\ held' = None
    /\ validate' = TRUE
    /\ variant' = 0
    /\ steps' = <<>>
    /\ errors' = <<>>
    /\ body' = None
    /\ requests' = <<>>
    /\ response' = NoResponse
    /\ outcome' = NoOutcome
    /\ UNCHANGED rec
    /\ UNCHANGED codecVars
    /\ UNCHANGED pairVars

Next ==
    \/ \E c \in Fetchable : FetchCall(c)
    \/ \E status \in Statuses, text \in Bodies(cls) : FetchResponse(status, text)
    \/ \E e \in Saveable, v \in BOOLEAN, field_variant \in Variants :
           SaveCall(e, v, field_variant)
    \/ \E status \in Statuses, text \in PostBodies : SaveResponse(status, text)
    \/ Return

Spec == Init /\ [][Next]_vars

(***************************************************************************)
(* client.py with a transport whose calls can fail or be cancelled         *)
(***************************************************************************)
\* what the awaited post raises when the transport fails or the task is
\* cancelled while it waits
TransportFailures == {Raise("ClientConnectionError"), Raise("TimeoutError"),
                      Raise("CancelledError")}

\* the await of httpClient.post raises: save has no try statement, the
\* exception leaves the call as it is
SaveFailed(exc) ==
    /\ pc = "save_wait"
    /\ pc' = "done"
    /\ outcome' = Propagated(exc)
    /\ UNCHANGED <<cls, rec, arg, held, validate, variant, steps, errors, body,
                   requests, response>>
    /\ UNCHANGED codecVars
    /\ UNCHANGED pairVars

NextFailing ==
    \/ Next
    \/ \E exc \in TransportFailures : SaveFailed(exc)

SpecFailing == Init /\ [][NextFailing]_vars

(***************************************************************************)
(* Two calls of one Client, interleaved at their awaits                    *)
(***************************************************************************)
\* records the two calls save: one that passes, one that fails validation,
\* one whose encoding raises, a per-port record, and one of a read-only
\* endpoint
PairRecords ==
    {r \in SnmpRecords :
        /\ r.f["enabled"] = True
        /\ r.f["community"] \in {PyStr(Text_public), PyStr(TextOver)}
        /\ r.f["contact_info"] = PyStr(<<>>)
        /\ r.f["location"] = PyStr(TextMax)}
    \cup {r \in SystemRecords :
             /\ r.f["address_acquisition"] = PyStr(Option_STATIC)
             /\ r.f["static_ip"] = PyStr(Ip_short)
             /\ r.f["identity"] = PyStr(Text_A)
             /\ IsNone(r.f["bridge_priority"])}
    \cup {r \in LinkRecords :
             /\ Len(r.f["name"].l) = 1
             /\ r.f["name"].l[1] = PyStr(Text_A)
             /\ IsNone(r.f["man_speed"])}
    \cup {CHOOSE r \in SfpRecords : TRUE}
PairStatuses == {200, 500}
PairBodies(kind, c) == IF kind = "save" THEN {<<>>, ErrorPage} ELSE Bodies(c)

\* one frame for the client: every call in flight resumes with the locals of
\* the lowest one
Frame_shared(cs, i) ==
    cs[CHOOSE j \in CallIds : cs[j].pc # "idle" /\ \A k \in CallIds : cs[k].pc # "idle" => j <= k]

\* the locals of call i: the coroutine's own frame
Frame(cs, i) == cs[i]

Sent(i, request) == [id |-> i, dir |-> "request", request |-> request]
Answered(i, resp) == [id |-> i, dir |-> "response", response |-> resp]

\* call i runs Client.fetch up to its await of httpClient.get
PairFetchCall(i, c) ==
    /\ calls[i].pc = "idle"
    /\ calls' = [calls EXCEPT ![i] = [Idle EXCEPT !.pc = "wait", !.kind = "fetch",
                                                  !.cls = c]]
    /\ traffic' = Append(traffic,
                         Sent(i, Request("GET", urljoin(Host, endpoint_path(c)), None)))
    /\ UNCHANGED <<clientVars, codecVars>>

\* the frame of a call that ended with the result
Ended(frame, result) == [frame EXCEPT !.pc = "done", !.outcome = result]

\* lines 55-69 of call i, given what its read-only check, its validation and
\* its encoding gave
SaveToAwait(i, started, denied, errs, encoded) ==
    IF denied # NoOutcome
    THEN calls' = [calls EXCEPT ![i] = Ended(started, denied)] /\ UNCHANGED traffic
    ELSE IF errs # <<>>
    THEN calls' = [calls EXCEPT ![i] = Ended(started, ValidationError(errs))]
         /\ UNCHANGED traffic
    ELSE IF IsExc(encoded)
    THEN calls' = [calls EXCEPT ![i] = Ended(started, Propagated(encoded))]
         /\ UNCHANGED traffic
    ELSE /\ calls' = [calls EXCEPT ![i] = [started EXCEPT !.pc = "wait",
                                                           !.body = encoded]]
         /\ traffic' = Append(traffic,
                              Sent(i, Request("POST",
                                              urljoin(Host, endpoint_path(started.cls)),
                                              encoded)))

\* call i runs Client.save up to its await of httpClient.post, or to the
\* exception that ends it before
PairSaveCall(i, e, v, field_variant) ==
    /\ calls[i].pc = "idle"
    /\ SaveToAwait(i, [Idle EXCEPT !.kind = "save", !.cls = e.cls, !.arg = e,
                                   !.validate = v, !.variant = field_variant],
                   ReadonlyCheck(e.cls), Validate(e, v),
                   writeDataclass(e, field_variant))
    /\ UNCHANGED <<clientVars, codecVars>>

\* what the call with the locals own ends in after its await, and the
\* record it returns: lines 23-26 of fetch, lines 70-73 of save
Resumed(own, resp, decoded) ==
    IF own.kind = "save"
    THEN [outcome |-> IF resp.status # 200
                      THEN SaveError(resp.status, resp.text,
                                     urljoin(Host, endpoint_path(own.cls)), own.cls)
                      ELSE Returned,
          rec |-> None]
    ELSE IF raise_for_status(resp) # NoOutcome
    THEN [outcome |-> raise_for_status(resp), rec |-> None]
    ELSE IF IsExc(decoded) THEN [outcome |-> Propagated(decoded), rec |-> None]
    ELSE [outcome |-> Returned, rec |-> decoded]

\* the frame of a call answered with resp that ended with the result
Answer(frame, resp, result) ==
    [frame EXCEPT !.pc = "done", !.response = resp, !.outcome = result.outcome,
                  !.rec = result.rec]

\* the transport answers call i, which resumes after its await and runs to
\* its end with its own locals
PairResponse(i, status, text) ==
    /\ calls[i].pc = "wait"
    /\ text \in PairBodies(calls[i].kind, calls[i].cls)
    /\ calls' = [calls EXCEPT ![i] =
                    Answer(calls[i], Response(status, text),
                           Resumed(Frame(calls, i), Response(status, text),
                                   readDataclass(Frame(calls, i).cls, PyStr(text))))]
    /\ traffic' = Append(traffic, Answered(i, Response(status, text)))
    /\ UNCHANGED <<clientVars, codecVars>>

NextPair ==
    \/ \E i \in CallIds, c \in Fetchable : PairFetchCall(i, c)
    \/ \E i \in CallIds, e \in PairRecords, v \in BOOLEAN, field_variant \in Variants :
           PairSaveCall(i, e, v, field_variant)
    \/ \E i \in CallIds, status \in PairStatuses,
          text \in PairBodies("save", "none") \cup UNION {Bodies(c) : c \in Fetchable} :
           PairResponse(i, status, text)

SpecPair == Init /\ [][NextPair]_vars

(***************************************************************************)
(* The codec on its own: a value is encoded, and the wire text decoded     *)
(***************************************************************************)
\* characters the probed strings are made of: NUL, space, "A", e-acute, euro sign
Alphabet == {0, 32, 65, 233, 8364}
ProbeStrings == UNION {[1..n -> Alphabet] : n \in 0..MaxStrLen}

\* records of the endpoints that are not marked read-only
ProbeRecords == UNION {Records(c) : c \in {d \in Classes : ~endpoint_readonly(d)}}

\* records of the endpoint with fields of every encoding: each field null
\* or holding a value
MixedRecords ==
    {Obj("MixedEndpoint",
         [label |-> l, port_type |-> t, module |-> m, power |-> w, count |-> c,
          limit |-> x, cost_mode |-> None]) :
        l \in {None, PyStr(Text_A)},
        t \in {None, PyList(<<PyStr(ColorOption[1]), PyStr(ColorOption[2])>>)},
        m \in {None, PyStr(Text_B)},
        w \in {None, PyFloat(-301, 100)},
        c \in {None, PyInt(7)},
        x \in {None, PyInt(0), PyList(<<PyInt(1), PyInt(2)>>)}}

\* the declaration of field fname of endpoint class c
FieldOf(c, fname) ==
    fields(c)[CHOOSE i \in 1..Len(fields(c)) : fields(c)[i].fname = fname]

Probe(f, value) == [fld |-> f, value |-> value]
WireProbe(f, json_data) == [fld |-> f, json_data |-> json_data]

\* "int" fields: plain, signed 16-bit, scaled by 10 and by 100, each with
\* values its raw range holds
MaxRaw == 40
IntProbes ==
    {Probe(FieldOf("SystemEndpoint", "bridge_priority"), PyInt(x)) :
        x \in 0..MaxRaw \cup {255, 256, 4095, 32768, 65535}}
    \cup {Probe(FieldOf("SystemEndpoint", "cpu_temp"), PyInt(x)) :
             x \in {-32768, -5, -1, 0, 1, 32767}}
    \cup {Probe(FieldOf("SystemEndpoint", "psu1_power"), PyFloat(k, 10)) :
             k \in 0..MaxRaw}
    \cup {Probe(FieldOf("SystemEndpoint", "psu1_voltage"), PyFloat(k, 100)) :
             k \in 0..MaxRaw}

\* canonical MAC addresses: six uppercase pairs joined by colons
MacPairs == {<<48, 48>>, <<65, 70>>, <<57, 69>>}      \* "00", "AF", "9E"
MacProbes ==
    {Probe(FieldOf("SystemEndpoint", "mac"),
           PyStr(Join(<<Colon>>, [i \in 1..6 |-> pairs[i]]))) :
        pairs \in [1..6 -> MacPairs]}

\* dotted quads; the last octet stays below 128 so that the 32-bit value
\* stays within the integers of the model
Octets == {0, 1, 10, 127, 255}
LastOctets == {0, 1, 127}
IpProbes ==
    {Probe(FieldOf("SystemEndpoint", "static_ip"),
           PyStr(Join(<<Dot>>, [i \in 1..4 |-> DecStr(octets[i])]))) :
        octets \in {o \in [1..4 -> Octets \cup LastOctets] :
                       o[4] \in LastOctets /\ \A i \in 1..3 : o[i] \in Octets}}

\* lists of at most MaxBits entries over the set
MaxBits == 5
ListsOver(set) == UNION {[1..n -> set] : n \in 0..MaxBits}

\* "option" fields with each of their options, alone and per port, and with
\* a value that is not an option; a "bool_option" field over the option pair
\* ("short", "long") with every per-port list
OptionFields == {FieldOf("SystemEndpoint", "address_acquisition"),
                 FieldOf("SystemEndpoint", "port_cost_mode"),
                 FieldOf("LinkEndpoint", "man_speed")}
OptionsOf(f) == {PyStr(f.options[i]) : i \in 1..Len(f.options)}
NotAnOption == PyStr(<<88>>)                             \* "X"
BoolOptionField ==
    WithOptions(Fld("mode", <<"i01">>, "bool_option", TRUE, FALSE), PortCostMode)
OptionProbes ==
    UNION {{Probe(f, v) : v \in OptionsOf(f) \cup {NotAnOption}} : f \in OptionFields}
    \cup UNION {{Probe(f, PyList(l)) : l \in [1..MaxPorts -> OptionsOf(f)]} :
                  f \in OptionFields}
    \cup {Probe(BoolOptionField, PyList(l)) : l \in ListsOver(OptionsOf(BoolOptionField))}

\* per-port boolean lists of a "bool" field
BoolProbes ==
    {Probe(FieldOf("SystemEndpoint", "allow_from_ports"), PyList(l)) :
        l \in ListsOver({PyBool(TRUE), PyBool(FALSE)})}

OneOrPerPort(set) == set \cup {PyList(l) : l \in [1..MaxPorts -> set]}
\* a "scalar_bool" field with both values, and a "uint64" counter, alone
\* and per port
CounterValues == {0, 1, 15, 16, 255, 256, 4096}
ScalarProbes ==
    {Probe(FieldOf("SnmpEndpoint", "enabled"), PyBool(b)) : b \in BOOLEAN}
    \cup {Probe(FieldOf("StatsEndpoint", "rx_bytes"), v) :
             v \in OneOrPerPort({PyInt(x) : x \in CounterValues})}

FieldProbes ==
    IntProbes \cup MacProbes \cup IpProbes \cup OptionProbes \cup BoolProbes
    \cup ScalarProbes
\* partner fields of a link aggregation record: wire mappings holding the
\* no-partner sentinel, an address, and per-port lists of both
PartnerMacField == Fld("partner_mac", <<"i01">>, "partner_mac", FALSE, FALSE)
PartnerIpField == Fld("partner_ip", <<"i02">>, "partner_ip", FALSE, FALSE)
WireMac == <<97, 97, 98, 98, 99, 99, 100, 100, 101, 101, 55, 102>>   \* aabbccddee7f
WireIp == 22587584                                     \* 0x0158a8c0, 192.168.88.1
Mapping(f, value) == WireProbe(f, PyDict(<<Item(KeyText(f.name[1]), value)>>))
PartnerProbes ==
    {Mapping(PartnerMacField, v) : v \in OneOrPerPort({PyStr(TwelveZeros), PyStr(WireMac)})}
    \cup {Mapping(PartnerIpField, v) : v \in OneOrPerPort({PyInt(0), PyInt(WireIp)})}

\* an enum-by-two-bit-pair field: low bitmask under i01, high bitmask under
\* i02, over the first 1..4 of four options, with 0..MaxPorts declared ports
\* or none declared; the high bitmask may be missing from the mapping
PortType ==
    << <<115, 104, 97, 114, 101, 100>>, <<112, 50, 112>>,        \* "shared", "p2p"
       <<101, 100, 103, 101>>, <<97, 117, 116, 111>> >>           \* "edge", "auto"
BitshiftField(n, ports) ==
    WithPorts(WithPair(WithOptions(Fld("type", <<"i01">>, "bitshift_option", FALSE, FALSE),
                                   SubSeq(PortType, 1, n)),
                       "i02"),
              ports)
Bitmasks == 0..(Pow2(MaxPorts) - 1)
BitshiftProbes ==
    {WireProbe(BitshiftField(n, ports),
               PyDict(<<Item(KeyText("i01"), PyInt(low)), Item(KeyText("i02"), PyInt(high))>>)) :
        n \in 1..4, ports \in -1..MaxPorts, low \in Bitmasks, high \in Bitmasks}
    \cup {Mapping(BitshiftField(n, MaxPorts), PyInt(low)) : n \in 1..4, low \in Bitmasks}

\* a "bool" field that declares its port count, in mappings that hold a list
\* of another length, an empty list, or none
PinnedField(ports) == WithPorts(Fld("flags", <<"i01">>, "bool", FALSE, FALSE), ports)
PinnedProbes ==
    {WireProbe(PinnedField(ports),
               PyDict(<<Item(KeyText("i01"), PyInt(x))>> \o others)) :
        ports \in {-1} \cup 0..(MaxPorts + 1), x \in 0..3,
        others \in {<<>>} \cup {<<Item(KeyText("i02"), PyList([i \in 1..n |-> PyInt(0)]))>> :
                                   n \in 0..MaxPorts}}
\* wire values of the field types that are decoded value by value, alone
\* and in lists of up to MaxPorts entries
SfpSX == <<53, 51, 53, 56, 55, 98, 51, 48, 51, 51, 51, 53, 51, 50, 55, 100>>      \* "SX{0352}"
SfpLC == <<52, 99, 52, 51, 48, 48>>                          \* "LC\\x00"
ArrayElements ==
    {<<FieldOf("SnmpEndpoint", "enabled"), {PyInt(0), PyInt(1)}>>,
     <<FieldOf("SystemEndpoint", "bridge_priority"), {PyInt(0), PyInt(5)}>>,
     <<FieldOf("SystemEndpoint", "cpu_temp"), {PyInt(5), PyInt(65531)}>>,
     <<FieldOf("SystemEndpoint", "psu1_power"), {PyInt(0), PyInt(15)}>>,
     <<FieldOf("StatsEndpoint", "rx_bytes"), {PyInt(0), PyInt(256)}>>,
     <<FieldOf("SnmpEndpoint", "community"), {PyStr(<<52, 49>>), PyStr(<<52, 49, 50, 48>>)}>>,
     <<FieldOf("SystemEndpoint", "mac"), {PyStr(WireMac), PyStr(TwelveZeros)}>>,
     <<FieldOf("SystemEndpoint", "static_ip"), {PyInt(WireIp), PyInt(0)}>>,
     <<FieldOf("SystemEndpoint", "address_acquisition"), {PyInt(0), PyInt(1)}>>,
     <<FieldOf("SfpEndpoint", "type"), {PyStr(SfpSX), PyStr(SfpLC)}>>,
     <<FieldOf("SfpEndpoint", "tx_power"), {PyInt(0), PyInt(5000), PyInt(10000)}>>}
ArrayProbes ==
    UNION {{Mapping(e[1], v) :
               v \in e[2] \cup {PyList(l) : l \in UNION {[1..n -> e[2]] : n \in 0..MaxPorts}}} :
           e \in ArrayElements}
WireProbes == PartnerProbes \cup BitshiftProbes \cup PinnedProbes \cup ArrayProbes

\* instances given to validate_dataclass: of each field, a value that meets
\* its constraint and one that does not, in every combination; each field
\* alone with further values, the other fields null; and a value that is
\* no dataclass
Chars(n, cp) == [i \in 1..n |-> cp]
FixtureGood ==
    [name |-> PyStr(TextMax),
     title |-> PyStr(Chars(CustomMaxLength, 65)),
     names |-> PyList(<<PyStr(TextMax), PyStr(<<>>)>>),
     value |-> PyInt(BoundMax),
     values |-> PyList(<<PyInt(BoundMin), PyInt(BoundMax)>>),
     free |-> PyInt(-70000),
     color |-> PyStr(ColorOption[3]),
     colors |-> PyList(<<PyStr(ColorOption[1]), PyStr(ColorOption[2])>>),
     plain |-> PyStr(Option_50G),
     readonly_name |-> PyStr(Text_A)]
FixtureBad ==
    [name |-> PyStr(TextEuroOver),
     title |-> PyStr(Chars(CustomMaxLength + 1, 65)),
     names |-> PyList(<<PyStr(TextOver), PyStr(Text_A), PyStr(TextEuroOver)>>),
     value |-> PyInt(BoundMax + 1),
     values |-> PyList(<<PyInt(BoundMin - 1), PyInt(BoundMin), PyInt(BoundMax + 1),
                         PyFloat(2 * BoundMax + 1, 2)>>),
     free |-> None,
     color |-> PyStr(Option_50G),
     colors |-> PyList(<<PyStr(Option_50G), PyStr(ColorOption[1]), PyStr(Option_PPPOE)>>),
     plain |-> None,
     readonly_name |-> PyStr(TextOver)]
FixtureMore ==
    [name |-> {PyStr(<<>>), PyStr(TextOver), PyStr(Chars(5, 8364)), PyInt(1000000)},
     title |-> {PyStr(TextOver), PyStr(Chars(10, 8364)), PyStr(Chars(11, 8364))},
     names |-> {PyList(<<>>), PyList(<<PyStr(TextOver), PyStr(TextOver)>>),
                PyList(<<PyInt(1000000), PyStr(TextOver)>>)},
     value |-> {PyInt(BoundMin), PyInt(BoundMin - 1), PyFloat(1, 2), PyStr(Text_A)},
     values |-> {PyList(<<>>), PyList(<<PyInt(BoundMax + 1), PyInt(BoundMin - 1)>>)},
     free |-> {PyInt(1000000), PyList(<<PyInt(-1), PyInt(1000000)>>)},
     color |-> {PyStr(ColorOption[1]), PyStr(<<>>), PyInt(1)},
     colors |-> {PyList(<<>>), PyList(<<PyStr(Option_50G), PyStr(Option_50G)>>)},
     plain |-> {PyList(<<PyStr(Option_50G)>>)},
     readonly_name |-> {PyList(<<PyStr(TextOver)>>)}]
FixtureNames == DOMAIN FixtureGood
FixtureRecords ==
    {Obj("FixtureEndpoint",
         [fname \in FixtureNames |->
             IF fname \in bad THEN FixtureBad[fname] ELSE FixtureGood[fname]]) :
        bad \in SUBSET FixtureNames}
    \cup UNION {{Obj("FixtureEndpoint",
                     [fname \in FixtureNames |-> IF fname = g THEN v ELSE None]) :
                    v \in FixtureMore[g]} : g \in FixtureNames}
    \cup {Obj("FixtureEndpoint",
              [fname \in FixtureNames |->
                  IF fname \in {"name", "value"} THEN None
                  ELSE IF fname = "readonly_name" THEN FixtureBad[fname]
                  ELSE FixtureGood[fname]])}
ValidationProbes == FixtureRecords \cup {PyInt(7)}

\* wire texts of per-port records that are fetched, changed in one element
\* and saved
RecordTexts == {LinkExample, LinkThreePorts, LinkFull}
\* wire texts that are fetched only: a bitmask with more bits than the first
\* list has entries, two lists of different lengths, no list, and an empty
\* first list
FetchTexts == {LinkWideMask, LinkUneven, LinkNoArray, LinkEmptyFirst}
\* wire texts of tables: no entry, entries whose lists differ in length, and
\* a first entry without a list or with an empty one
ListTexts == {ListNone, ListTwo, ListNoArrayFirst, ListEmptyFirst}
\* values a caller may put into an element of the field
NewValues(f) ==
    CASE f.type = "bool" -> {True, False}
      [] f.type = "str" -> {PyStr(Text_Uplink), PyStr(<<>>), PyStr(TextTrailingSpace)}
      [] f.type = "option" -> OptionsOf(f)
      [] OTHER -> {}

InitCodec ==
    /\ pc = "idle"
    /\ rec = None
    /\ arg = None
    /\ held = None
    /\ validate = TRUE
    /\ variant = 0
    /\ steps = <<>>
    /\ errors = <<>>
    /\ body = None
    /\ requests = <<>>
    /\ response = NoResponse
    /\ outcome = NoOutcome
    /\ \/ /\ probe \in {PyStr(s) : s \in ProbeStrings} \cup ProbeRecords
                        \cup MixedRecords \cup ValidationProbes
          /\ fld = NoField
          /\ cls = "none"
       \/ \E p \in FieldProbes : probe = p.value /\ fld = p.fld /\ cls = "none"
       \/ \E p \in WireProbes : probe = p.json_data /\ fld = p.fld /\ cls = "none"
       \/ /\ probe \in {PyStr(t) : t \in RecordTexts \cup FetchTexts \cup ListTexts}
          /\ fld = NoField
          /\ cls = "LinkEndpoint"
    /\ wire = None
    /\ back = None
    /\ stage = "input"
    /\ calls = [i \in CallIds |-> Idle]
    /\ traffic = <<>>

\* _serialize_field on a "str" field: str_to_hex
EncodeStr ==
    /\ stage = "input"
    /\ fld = NoField
    /\ cls = "none"
    /\ IsStr(probe)
    /\ wire' = str_to_hex(probe)
    /\ stage' = "encoded"
    /\ UNCHANGED <<probe, back, fld>>
    /\ UNCHANGED clientVars
    /\ UNCHANGED pairVars

\* the wire parser's reading of the token, then _parse_dict on a "str" field:
\* hex_to_str
DecodeStr ==
    /\ stage = "encoded"
    /\ fld = NoField
    /\ IsStr(probe)
    /\ back' = hex_to_str(ParseValue(wire.s))
    /\ stage' = "decoded"
    /\ UNCHANGED <<probe, wire, fld>>
    /\ UNCHANGED clientVars
    /\ UNCHANGED pairVars

EncodeRecord(field_variant) ==
    /\ stage = "input"
    /\ IsObj(probe)
    /\ probe.cls \in Classes \cup {"MixedEndpoint"}
    /\ wire' = writeDataclass(probe, field_variant)
    /\ stage' = "encoded"
    /\ UNCHANGED <<probe, back, fld>>
    /\ UNCHANGED clientVars
    /\ UNCHANGED pairVars

DecodeRecord ==
    /\ stage = "encoded"
    /\ IsObj(probe)
    /\ IsStr(wire)
    /\ back' = readDataclass(probe.cls, wire)
    /\ stage' = "decoded"
    /\ UNCHANGED <<probe, wire, fld>>
    /\ UNCHANGED clientVars
    /\ UNCHANGED pairVars

\* the port count readDataclass would find for a lone field: the length of
\* the list, 10 when the value is no list or an empty one
PortsOf(value) ==
    IF IsList(value) /\ value.l # <<>> THEN Len(value.l) ELSE DefaultPortCount

\* _serialize_field on the declared field
EncodeField ==
    /\ stage = "input"
    /\ fld # NoField
    /\ ~IsDict(probe)
    /\ wire' = _serialize_field(probe, fld, PortsOf(probe))
    /\ stage' = "encoded"
    /\ UNCHANGED <<probe, back, fld>>
    /\ UNCHANGED clientVars
    /\ UNCHANGED pairVars

\* the wire parser's reading of the token, then the field's case of
\* _parse_dict, with the port count of the record the value came from: as
\* many ports as the probed list has entries
DecodeField ==
    /\ stage = "encoded"
    /\ fld # NoField
    /\ ~IsDict(probe)
    /\ IsStr(wire) \/ IsList(wire)
    /\ LET value == ParseValue(WireToken(wire))
       IN back' = IF IsExc(value) THEN value
                  ELSE Transform(fld, value, PyDict(<<>>),
                                 IF IsList(probe) THEN Len(probe.l) ELSE PortsOf(value))
    /\ stage' = "decoded"
    /\ UNCHANGED <<probe, wire, fld>>
    /\ UNCHANGED clientVars
    /\ UNCHANGED pairVars

\* _parse_dict's handling of the declared field in a parsed wire mapping
DecodeWire ==
    /\ stage = "input"
    /\ fld # NoField
    /\ IsDict(probe)
    /\ LET value == FirstAlias(fld.name, probe)
       IN back' = IF IsNone(value) THEN None
                  ELSE Transform(fld, value, probe, PortCount(probe))
    /\ stage' = "read"
    /\ UNCHANGED <<probe, wire, fld>>
    /\ UNCHANGED clientVars
    /\ UNCHANGED pairVars

\* _serialize_field on the value that was read
EncodeBack ==
    /\ stage = "read"
    /\ ~IsExc(back)
    /\ wire' = _serialize_field(back, fld, PortCount(probe))
    /\ stage' = "rewritten"
    /\ UNCHANGED <<probe, back, fld>>
    /\ UNCHANGED clientVars
    /\ UNCHANGED pairVars

\* validate_dataclass on the instance
ValidateInstance ==
    /\ stage = "input"
    /\ probe \in ValidationProbes
    /\ errors' = validate_dataclass(probe)
    /\ stage' = "validated"
    /\ UNCHANGED <<pc, cls, rec, arg, held, validate, variant, steps, body, requests,
                   response, outcome>>
    /\ UNCHANGED <<probe, wire, back, fld>>
    /\ UNCHANGED pairVars

\* readDataclass on the wire text of a record of class cls
DecodeText ==
    /\ stage = "input"
    /\ cls # "none"
    /\ probe.s \notin ListTexts
    /\ back' = readDataclass(cls, probe)
    /\ stage' = "fetched"
    /\ UNCHANGED <<probe, wire, fld>>
    /\ UNCHANGED clientVars
    /\ UNCHANGED pairVars

\* readListDataclass on the wire text of a table of entries of class cls
DecodeList ==
    /\ stage = "input"
    /\ cls # "none"
    /\ probe.s \in ListTexts
    /\ back' = readListDataclass(cls, probe)
    /\ stage' = "listed"
    /\ UNCHANGED <<probe, wire, fld>>
    /\ UNCHANGED clientVars
    /\ UNCHANGED pairVars

\* the caller's copy of the record with one element of one writable
\* per-port field replaced: record.fname[index] = value
ChangeElement(fname, index, value) ==
    /\ stage = "fetched"
    /\ IsObj(back)
    /\ probe.s \in RecordTexts
    /\ fname \in FieldNames(cls)
    /\ LET f == FieldOf(cls, fname)
       IN /\ f.writable
          /\ IsList(back.f[f.fname])
          /\ index < Len(back.f[f.fname].l)
          /\ value \in NewValues(f)
          /\ arg' = [back EXCEPT !.f[f.fname].l[index + 1] = value]
          /\ fld' = f
    /\ stage' = "changed"
    /\ UNCHANGED <<pc, cls, rec, held, validate, variant, steps, errors, body,
                   requests, response, outcome>>
    /\ UNCHANGED <<probe, wire, back>>
    /\ UNCHANGED pairVars

\* writeDataclass on the changed record
EncodeChanged(field_variant) ==
    /\ stage = "changed"
    /\ wire' = writeDataclass(arg, field_variant)
    /\ variant' = field_variant
    /\ stage' = "saved"
    /\ UNCHANGED <<pc, cls, rec, arg, held, validate, steps, errors, body, requests,
                   response, outcome>>
    /\ UNCHANGED <<probe, back, fld>>
    /\ UNCHANGED pairVars

NextCodec ==
    \/ DecodeText
    \/ DecodeList
    \/ \E fname \in FieldNames("LinkEndpoint"), index \in 0..MaxPorts,
          value \in UNION {NewValues(FieldOf("LinkEndpoint", g)) :
                              g \in FieldNames("LinkEndpoint")} :
           ChangeElement(fname, index, value)
    \/ \E field_variant \in Variants : EncodeChanged(field_variant)
    \/ ValidateInstance
    \/ DecodeWire
    \/ EncodeBack
    \/ EncodeStr
    \/ DecodeStr
    \/ \E field_variant \in Variants : EncodeRecord(field_variant)
    \/ DecodeRecord
    \/ EncodeField
    \/ DecodeField

SpecCodec == InitCodec /\ [][NextCodec]_vars

(***************************************************************************)
(* Properties of Client.save and Client.fetch, over Spec                   *)
(***************************************************************************)
\* a save is in progress or has ended, and has not yet been returned from
InSave == pc \in {"save_wait", "done"} /\ IsObj(arg)
\* a fetch is in progress or has ended
InFetch == pc \in {"fetch_wait", "done"} /\ ~IsObj(arg)
Did(step) == \E i \in 1..Len(steps) : steps[i] = step
Posts == {i \in 1..Len(requests) : requests[i].method = "POST"}

\* C1: a save of a record whose endpoint class is marked read-only ends with
\* the read-only ValueError after the read-only check alone -- validation is
\* not run, nothing is encoded and nothing is posted -- whatever the record
\* holds and whatever the validate flag is.
C1_ReadOnlyAbortsFirst ==
    (InSave /\ endpoint_readonly(arg.cls)) =>
        /\ pc = "done"
        /\ outcome = ReadOnlyError(arg.cls)
        /\ steps = <<"readonly_check">>
        /\ errors = <<>>
        /\ requests = <<>>

\* a read-only record holding an over-long string was refused with validate=False
C1_Witness ==
    /\ pc = "done" /\ IsObj(arg) /\ endpoint_readonly(arg.cls)
    /\ ~validate
    /\ \E i \in 1..Len(arg.f.vendor.l) : arg.f.vendor.l[i] = PyStr(TextOver)
    /\ outcome = ReadOnlyError(arg.cls)

\* C2: a save with validation enabled, of a record of a writable endpoint
\* that has at least one violation, ends with a ValidationError whose errors
\* are the whole list validate_dataclass returns, and posts nothing.
C2_ValidationErrorIsComplete ==
    (InSave /\ validate /\ ~endpoint_readonly(arg.cls)
            /\ validate_dataclass(arg) # <<>>) =>
        /\ pc = "done"
        /\ outcome.type = "ValidationError"
        /\ outcome.errors = validate_dataclass(arg)
        /\ Posts = {}

\* a save was refused with a ValidationError listing several violations
C2_Witness ==
    /\ pc = "done" /\ IsObj(arg) /\ validate
    /\ outcome.type = "ValidationError"
    /\ Len(outcome.errors) >= 2
    /\ requests = <<>>

\* C3: when the POST is answered with a status other than 200, save raises a
\* SaveError carrying that status, the whole response body, the URL the
\* request went to and the name of the endpoint class; when it is answered
\* with 200, save returns without error.
C3_SaveErrorCarriesAnswer ==
    (InSave /\ pc = "done" /\ response # NoResponse) =>
        IF response.status # 200
        THEN /\ outcome.type = "SaveError"
             /\ outcome.status_code = response.status
             /\ outcome.response_text = response.text
             /\ outcome.url = urljoin(Host, endpoint_path(arg.cls))
             /\ outcome.url = requests[1].url
             /\ outcome.endpoint_name = arg.cls
        ELSE outcome = Returned

\* a POST answered 204 with a body longer than the message quotes
C3_Witness ==
    /\ pc = "done" /\ IsObj(arg)
    /\ response = Response(204, LongPage)
    /\ outcome.type = "SaveError"
    /\ outcome.response_text = LongPage

\* C4: a save issues at most one POST and nothing else; when it issues one,
\* the read-only check has passed, validation (when enabled) has found no
\* violation and the body is the completed encoding of the record; a
\* response other than 200 is followed by no further request.
C4_OnePostAfterAllChecks ==
    InSave =>
        /\ Len(requests) <= 1
        /\ Posts = 1..Len(requests)
        /\ requests # <<>> =>
              /\ ~endpoint_readonly(arg.cls)
              /\ validate => validate_dataclass(arg) = <<>>
              /\ IsStr(requests[1].body)
              /\ requests[1].body = writeDataclass(arg, variant)
              /\ SubSeq(steps, 1, Len(steps) - (IF Did("status") THEN 1 ELSE 0))
                     = <<"readonly_check">>
                       \o (IF validate THEN <<"validate">> ELSE <<>>)
                       \o <<"encode", "post">>
        /\ (pc = "done" /\ response # NoResponse /\ response.status # 200) =>
              /\ Len(requests) = 1
              /\ steps[Len(steps)] = "status"

\* a validated save whose single POST was answered 500
C4_Witness ==
    /\ pc = "done" /\ IsObj(arg) /\ validate
    /\ response.status = 500
    /\ Len(requests) = 1
    /\ steps = <<"readonly_check", "validate", "encode", "post", "status">>

\* C5: a save of a StatsEndpoint record is refused as read-only, with the
\* ValueError that names StatsEndpoint, and posts nothing.
C5_StatsSaveRefused ==
    (InSave /\ arg.cls = "StatsEndpoint") =>
        /\ outcome = ReadOnlyError("StatsEndpoint")
        /\ requests = <<>>

C7_FetchDecodesOnly200 ==
    (InFetch /\ cls # "none") =>
        /\ requests = <<Request("GET", urljoin(Host, endpoint_path(cls)), None)>>
        /\ pc = "done" =>
              IF response.status # 200
              THEN /\ outcome.type = "HTTPError"
                   /\ ~Did("decode")
              ELSE /\ Did("decode")
                   /\ LET decoded == readDataclass(cls, PyStr(response.text))
                      IN IF IsExc(decoded) THEN outcome = Propagated(decoded)
                         ELSE outcome = Returned /\ rec = decoded

\* a decodable body that came with status 404 was not decoded
C7_Witness ==
    /\ pc = "done" /\ ~IsObj(arg) /\ cls = "SnmpEndpoint"
    /\ response = Response(404, SnmpFull)
    /\ outcome.type = "HTTPError"
    /\ ~Did("decode")

\* the aliases of field f that are keys of json_data, by position in f.name
Present(f, json_data) == {j \in 1..Len(f.name) : HasKey(json_data, KeyText(f.name[j]))}

\* C8: decoding a mapping leaves a field null, and raises nothing, when none
\* of the field's aliases is a key of the mapping; otherwise the field holds
\* the decoding of the value under the first alias, in declaration order,
\* that is a key.
C8_AbsentFieldIsNull ==
    (InFetch /\ pc = "done" /\ response.status = 200
             /\ IsDict(str_to_json(PyStr(response.text)))) =>
        LET json_data == str_to_json(PyStr(response.text))
            fs == fields(cls)
        IN \A i \in 1..Len(fs) :
              IF Present(fs[i], json_data) = {}
              THEN outcome = Returned /\ IsNone(rec.f[fs[i].fname])
              ELSE outcome = Returned =>
                      LET first == CHOOSE j \in Present(fs[i], json_data) :
                                      \A k \in Present(fs[i], json_data) : j <= k
                          value == Get(json_data, KeyText(fs[i].name[first]), None)
                      IN rec.f[fs[i].fname]
                            = (IF IsNone(value) THEN None
                               ELSE Transform(fs[i], value, json_data,
                                              PortCount(json_data)))

(***************************************************************************)
(* Properties of the codec, over SpecCodec                                 *)
(***************************************************************************)
\* a dotted quad: four decimal octets
IsDottedQuad(cps) ==
    LET parts == Split(cps, Dot)
    IN Len(parts) = 4 /\ \A i \in 1..4 : DecValue(parts[i]) \in 0..255

\* every writable value of record r lies in the domain of its field's type:
\* strings within the byte limit and options in their list (what the
\* validator checks), addresses in canonical form
InDomain(r) ==
    /\ validate_dataclass(r) = <<>>
    /\ \A i \in 1..Len(fields(r.cls)) :
          LET f == fields(r.cls)[i]
              value == r.f[f.fname]
          IN (f.writable /\ f.type = "ip" /\ ~IsNone(value)) =>
                 IsStr(value) /\ IsDottedQuad(value.s)

\* C9: for every record of a writable endpoint whose writable values lie in
\* their domains, encoding completes and decoding the encoded text gives a
\* record whose writable fields all equal the original ones.
C9_RecordRoundTrip ==
    (IsObj(probe) /\ InDomain(probe) /\ stage \in {"encoded", "decoded"}) =>
        /\ IsStr(wire)
        /\ stage = "decoded" =>
              /\ IsObj(back)
              /\ \A i \in 1..Len(fields(probe.cls)) :
                    LET f == fields(probe.cls)[i]
                    IN f.writable => back.f[f.fname] = probe.f[f.fname]

\* the string is within the default byte limit of a string field
WithinMaxBytes(cps) == Len(Utf8Encode(cps)) <= DefaultMaxLength
\* the last character of the string is one hex_to_str strips
EndsStripped(cps) == cps # <<>> /\ (IsNul(cps[Len(cps)]) \/ IsSpace(cps[Len(cps)]))

\* C10 as stated: for every string within the byte limit, hex_to_str of the
\* hex payload that str_to_hex produces is exactly the string.
C10_StrRoundTrip ==
    (stage = "decoded" /\ fld = NoField /\ IsStr(probe)
                       /\ WithinMaxBytes(probe.s)) => back = probe

\* C10: for every string within the byte limit that does not end in a NUL or
\* whitespace character, hex_to_str of the hex payload that str_to_hex
\* produces is exactly the string.
C10_StrRoundTripUnlessStripped ==
    (stage = "decoded" /\ fld = NoField /\ IsStr(probe) /\ WithinMaxBytes(probe.s)
                       /\ ~EndsStripped(probe.s)) => back = probe

\* a string with a leading space, a euro sign and a letter came back whole
C10_Witness ==
    /\ stage = "decoded"
    /\ probe = PyStr(<<32, 8364, 65>>)
    /\ wire = PyStr(<<Quote, 50, 48, 101, 50, 56, 50, 97, 99, 52, 49, Quote>>)
    /\ back = probe

(***************************************************************************)
(* Properties of the scalar transforms, field by field, over SpecCodec     *)
(***************************************************************************)
\* a value of the declared field went through _serialize_field, the wire
\* parser and the field's case of _parse_dict
FieldDecoded(type) == stage = "decoded" /\ fld.type = type /\ ~IsDict(probe)
FieldEncoded(type) ==
    stage \in {"encoded", "decoded"} /\ fld.type = type /\ ~IsDict(probe)

\* the raw integer x * scale lies in the field's declared width: any
\* non-negative integer for an unsigned field, the two's-complement range
\* for a signed one
InWidth(f, x) ==
    /\ IsNumber(x)
    /\ LET num == IF f.scaleD # 0 THEN x.n * f.scaleN ELSE x.n
           den == IF f.scaleD # 0 THEN x.d * f.scaleD ELSE x.d
       IN /\ num % den = 0
          /\ IF f.signed /\ f.bits > 0
             THEN /\ -Pow2(f.bits - 1) <= num \div den
                  /\ num \div den < Pow2(f.bits - 1)
             ELSE num >= 0

IsCanonicalMac(cps) ==
    /\ Len(cps) = 17
    /\ \A i \in 1..17 : IF i % 3 = 0 THEN cps[i] = Colon
                         ELSE cps[i] \in 48..57 \/ cps[i] \in 65..70

\* C12: a canonical MAC address (six uppercase colon-separated pairs) comes
\* back from hex_to_mac of the payload of mac_to_hex unchanged, and a dotted
\* quad with octets 0..255, 0.0.0.0 included, comes back from hex_to_ip of the
\* integer written by ip_to_hex unchanged.
C12_MacIpRoundTrip ==
    /\ (FieldDecoded("mac") /\ IsStr(probe) /\ IsCanonicalMac(probe.s)) =>
           back = probe
    /\ (FieldDecoded("ip") /\ IsStr(probe) /\ IsDottedQuad(probe.s)) =>
           back = probe

\* 0.0.0.0 was written as the zero literal and read back as 0.0.0.0
C12_Witness ==
    /\ FieldDecoded("ip")
    /\ probe = PyStr(<<Zero, Dot, Zero, Dot, Zero, Dot, Zero>>)
    /\ wire = PyStr(ZeroX00)
    /\ back = probe

\* value, or every entry of the list value, is one of the options
AllOptions(value, options) ==
    LET Is(v) == \E i \in 1..Len(options) : v = PyStr(options[i])
    IN IF IsList(value) THEN \A i \in 1..Len(value.l) : Is(value.l[i]) ELSE Is(value)

\* C13: an option of the field's list comes back from hex_to_option of the
\* index written by option_to_hex; and a per-port list over the option pair
\* of an enum-by-bit field comes back from hex_to_bool_option of the bitmask
\* built from it, decoded with the same port count.
C13_OptionRoundTrip ==
    /\ (FieldDecoded("option") /\ AllOptions(probe, fld.options)) => back = probe
    /\ (FieldDecoded("bool_option") /\ IsList(probe)
          /\ AllOptions(probe, SubSeq(fld.options, 1, 2))) => back = probe

\* ("long", "short", "long") was written as the bitmask 0x5 and read back
C13_Witness ==
    /\ FieldDecoded("bool_option")
    /\ probe = PyList(<<PyStr(PortCostMode[2]), PyStr(PortCostMode[1]),
                        PyStr(PortCostMode[2])>>)
    /\ wire = PyStr(<<Zero, LetterX, 53>>)
    /\ back = probe

\* C14: bool_list_to_hex of N true values is the mask 2^N - 1 and of the
\* empty list the literal 0x00; every boolean list v comes back from
\* hex_to_bool_list of its mask with length len(v), entry i being bit i of
\* the mask, bit 0 the first port.
C14_BoolListRoundTrip ==
    (FieldEncoded("bool") /\ IsList(probe)) =>
        LET v == probe.l
            mask == ParseValue(wire.s)
        IN /\ (\A i \in 1..Len(v) : v[i] = PyBool(TRUE)) => mask = PyInt(Pow2(Len(v)) - 1)
           /\ v = <<>> => wire = PyStr(ZeroX00)
           /\ stage = "decoded" =>
                 /\ back = probe
                 /\ \A i \in 1..Len(v) : back.l[i] = PyBool(BitAt(mask.n, i - 1) = 1)

\* the wire value of the declared field in the probed mapping
WireValue == FirstAlias(fld.name, probe)
\* a wire mapping was read, and the value read was encoded again
WireRead(type) == stage \in {"read", "rewritten"} /\ fld.type = type /\ IsDict(probe)
WireRewritten(type) == stage = "rewritten" /\ fld.type = type /\ IsDict(probe)
\* the wire value that stands for "no partner" in a field of the type
Sentinel(type) == IF type = "partner_mac" THEN PyStr(TwelveZeros) ELSE PyInt(0)

\* C15: in a partner-MAC or partner-IP field the sentinel wire value (the
\* all-zero MAC, the zero address) decodes to the empty string, and the
\* empty string is encoded as that same sentinel wire value again.
C15_PartnerSentinel ==
    \A type \in {"partner_mac", "partner_ip"} :
        /\ (WireRead(type) /\ WireValue = Sentinel(type)) => back = PyStr(<<>>)
        /\ (WireRewritten(type) /\ back = PyStr(<<>>)) =>
               ParseValue(wire.s) = Sentinel(type)

\* C16: hex_to_bitshift_option is total: for all low and high bitmasks, every
\* port count and every non-empty list of up to four options it returns one
\* value per port, each a member of the list, namely the option at index
\* low_bit | (high_bit << 1) or the last option when that index is beyond
\* the list.
C16_BitshiftTotal ==
    (WireRead("bitshift_option") /\ Len(fld.options) \in 1..4) =>
        LET low == WireValue.n
            high == Get(probe, KeyText(fld.pair), PyInt(0)).n
            length == IF fld.ports # -1 THEN fld.ports ELSE PortCount(probe)
            Index(i) == BitAt(low, i) + 2 * BitAt(high, i)
        IN /\ IsList(back)
           /\ Len(back.l) = length
           /\ \A i \in 1..length :
                 /\ \E j \in 1..Len(fld.options) : back.l[i] = PyStr(fld.options[j])
                 /\ back.l[i] = PyStr(fld.options[IF Index(i - 1) >= Len(fld.options)
                                                  THEN Len(fld.options)
                                                  ELSE Index(i - 1) + 1])

\* with two options, index 3 of the first port was clamped to the last option
C16_Witness ==
    /\ WireRead("bitshift_option")
    /\ Len(fld.options) = 2
    /\ fld.ports = MaxPorts
    /\ WireValue = PyInt(1)
    /\ Get(probe, KeyText(fld.pair), PyInt(0)) = PyInt(1)
    /\ IsList(back)
    /\ back.l[1] = PyStr(fld.options[2])

(***************************************************************************)
(* Properties of validate_dataclass, over SpecCodec                        *)
(***************************************************************************)
\* validate_dataclass has returned for a dataclass instance
Validated == stage = "validated" /\ IsObj(probe)
\* the errors returned that name the field
ErrorsOf(fname) == SelectSeq(errors, LAMBDA e : e.field = fname)
\* the maximum a string field is held to
MaxOf(f) == IF f.max_length # -1 THEN f.max_length ELSE DefaultMaxLength
\* len(v.encode("utf-8"))
ByteLen(v) == Len(Utf8Encode(v.s))

\* C17: for a writable string field holding a string, validate_dataclass
\* returns no violation of the field when the UTF-8 byte length of the value
\* is at most the declared maximum (15 when none is declared), and exactly
\* one, naming the field, the byte length found and the maximum, when it is
\* over; the length is in bytes, not characters.
C17_StrByteLength ==
    Validated =>
        \A i \in 1..Len(fields(probe.cls)) :
            LET f == fields(probe.cls)[i]
                value == probe.f[f.fname]
            IN (f.type = "str" /\ f.writable /\ IsStr(value)) =>
                  IF ByteLen(value) <= MaxOf(f)
                  THEN ErrorsOf(f.fname) = <<>>
                  ELSE /\ Len(ErrorsOf(f.fname)) = 1
                       /\ ErrorsOf(f.fname)[1].index = -1
                       /\ ErrorsOf(f.fname)[1].kind = "str"
                       /\ ErrorsOf(f.fname)[1].observed = ByteLen(value)
                       /\ ErrorsOf(f.fname)[1].limit = MaxOf(f)

\* six euro signs, 18 bytes, were refused for the default maximum, and a
\* string of exactly the declared maximum of another field passed
C17_Witness ==
    /\ Validated
    /\ probe.f.name = PyStr(TextEuroOver)
    /\ ErrorsOf("name") = <<Error("name", -1, "str", PyStr(TextEuroOver), 18, DefaultMaxLength)>>
    /\ IsStr(probe.f.title) /\ ByteLen(probe.f.title) = CustomMaxLength
    /\ ErrorsOf("title") = <<>>

\* the value v breaks the constraint of field f
Offends(f, v) ==
    CASE f.type = "str" -> IsStr(v) /\ ByteLen(v) > MaxOf(f)
      [] f.type = "int" -> /\ IsNumber(v)
                           /\ \/ f.hasMin /\ v.n < f.min * v.d
                              \/ f.hasMax /\ v.n > f.max * v.d
      [] f.type = "option" -> /\ f.options # <<>>
                              /\ \A j \in 1..Len(f.options) : v # PyStr(f.options[j])
      [] OTHER -> FALSE

\* C18: for a writable str, int or option field holding a list,
\* validate_dataclass returns one violation for each element that breaks the
\* constraint and none for the others, each tagged with the element's index,
\* in ascending index order; an integer equal to the minimum or the maximum
\* is within bounds.
C18_PerElementViolations ==
    Validated =>
        \A i \in 1..Len(fields(probe.cls)) :
            LET f == fields(probe.cls)[i]
                value == probe.f[f.fname]
                es == ErrorsOf(f.fname)
            IN (f.writable /\ f.type \in {"str", "int", "option"} /\ IsList(value)) =>
                  LET offending == {k \in 1..Len(value.l) : Offends(f, value.l[k])}
                  IN /\ Len(es) = Cardinality(offending)
                     /\ \A j \in 1..Len(es) : es[j].index + 1 \in offending
                     /\ \A j \in 1..Len(es), k \in 1..Len(es) :
                           j < k => es[j].index < es[k].index

\* of the integers (-1, 0, 101, 100.5) held to 0..100, the first, third and
\* fourth were reported and the one equal to the minimum was not
C18_Witness ==
    /\ Validated
    /\ probe.f.values = FixtureBad.values
    /\ [j \in 1..Len(ErrorsOf("values")) |-> ErrorsOf("values")[j].index] = <<0, 2, 3>>
    /\ [j \in 1..Len(ErrorsOf("names")) |-> ErrorsOf("names")[j].index] = <<0, 2>>

\* field f carries a constraint: a string always does (the default
\* maximum), an integer when it declares a bound, an option when it declares
\* its options
Constrained(f) ==
    \/ f.type = "str"
    \/ f.type = "int" /\ (f.hasMin \/ f.hasMax)
    \/ f.type = "option" /\ f.options # <<>>
\* field f is one the validator checks in the instance
Checked(instance, f) ==
    f.writable /\ ~IsNone(instance.f[f.fname]) /\ Constrained(f)
\* the value, or an element of the list value, breaks the constraint of f
Violates(f, value) ==
    IF IsList(value) THEN \E k \in 1..Len(value.l) : Offends(f, value.l[k])
    ELSE Offends(f, value)

\* C19: validate_dataclass returns a list of violations, never an exception;
\* the list is empty exactly when no checked field breaks its constraint;
\* and every violation is of a writable field that holds a value and
\* carries a constraint: non-writable fields, null values and fields without
\* a constraint contribute nothing.
C19_EmptyIffNoViolation ==
    Validated =>
        LET fs == fields(probe.cls)
            Named(fname) == fs[CHOOSE i \in 1..Len(fs) : fs[i].fname = fname]
        IN /\ \A j \in 1..Len(errors) :
                 /\ errors[j].kind \in {"str", "below", "above", "option"}
                 /\ errors[j].field \in FieldNames(probe.cls)
                 /\ Checked(probe, Named(errors[j].field))
           /\ errors = <<>> <=>
                 \A i \in 1..Len(fs) :
                     Checked(probe, fs[i]) => ~Violates(fs[i], probe.f[fs[i].fname])

\* an instance whose non-writable string is over-long, whose unconstrained
\* integer and option hold values and whose other fields are within their
\* constraints or null was found valid
C19_Witness ==
    /\ Validated
    /\ probe.f.readonly_name = PyStr(TextOver)
    /\ probe.f.free = PyInt(-70000)
    /\ probe.f.plain = PyStr(Option_50G)
    /\ IsNone(probe.f.name)
    /\ errors = <<>>

(***************************************************************************)
(* Properties of fetch, change, save on a per-port record, over SpecCodec  *)
(***************************************************************************)
\* the changed record was encoded
Saved == stage = "saved" /\ IsStr(wire)
\* the wire name field f is written under
WrittenKey(f) ==
    KeyText(IF variant < Len(f.name) THEN f.name[variant + 1] ELSE f.name[1])
\* the wire value of field f in the text encoded from the changed record,
\* and in the text encoded from the record as it was decoded
NewWire(f) == Get(str_to_json(wire), WrittenKey(f), None)
OldWire(f) == Get(str_to_json(writeDataclass(back, variant)), WrittenKey(f), None)
\* the part of a field's wire value that stands for port k: the k-th item
\* of a list, bit k - 1 of a bitmask
PortPart(value, k) == IF IsList(value) THEN value.l[k] ELSE BitAt(value.n, k - 1)
\* the ports whose element the caller changed
ChangedPorts ==
    {k \in 1..Len(arg.f[fld.fname].l) : arg.f[fld.fname].l[k] # back.f[fld.fname].l[k]}
\* every other writable field is encoded as before, and within the changed
\* field every port the caller left alone
FrameKept ==
    /\ \A i \in 1..Len(fields(cls)) :
          LET f == fields(cls)[i]
          IN (f.writable /\ f # fld) => NewWire(f) = OldWire(f)
    /\ \A k \in 1..Len(arg.f[fld.fname].l) \ ChangedPorts :
          PortPart(NewWire(fld), k) = PortPart(OldWire(fld), k)
\* the changed element decodes from the new text as the value put in
ChangeReadBack ==
    LET again == readDataclass(cls, wire)
    IN /\ IsObj(again)
       /\ \A k \in ChangedPorts : again.f[fld.fname].l[k] = arg.f[fld.fname].l[k]

IntegerTypes == {"bool", "scalar_bool", "int", "uint64", "ip", "option", "bool_option"}
\* the tokens _serialize_field returned: the element of a scalar result, the
\* elements of a list
Tokens(encoded) ==
    IF IsList(encoded) THEN {encoded.l[i].s : i \in 1..Len(encoded.l)}
    ELSE {encoded.s}
\* the digits after the 0x prefix
Digits(token) == SubSeq(token, 3, Len(token))
IsHexInteger(token) ==
    /\ Len(token) >= 3
    /\ SubSeq(token, 1, 2) = ZeroX
    /\ \A i \in 3..Len(token) : IsHexOrd(token[i])
IsZeroToken(token) == \A i \in 3..Len(token) : token[i] = Zero
EvenPadded(token) ==
    /\ IsHexInteger(token)
    /\ Len(Digits(token)) % 2 = 0
    /\ IsZeroToken(token) => token = ZeroX00
\* an integer-valued field was encoded into one token or a list of tokens
IntegerEncoded ==
    /\ stage \in {"encoded", "decoded"}
    /\ fld # NoField
    /\ fld.type \in IntegerTypes
    /\ ~IsDict(probe)
    /\ IsStr(wire) \/ (IsList(wire) /\ \A i \in 1..Len(wire.l) : IsStr(wire.l[i]))

\* C21: every hex integer _serialize_field emits for a field of type bool,
\* scalar_bool, int, uint64, ip, option or bool_option has an even number
\* of hex digits after the 0x prefix, and zero is emitted as 0x00.
C21_EvenHexDigits ==
    IntegerEncoded => \A token \in Tokens(wire) : EvenPadded(token)
\* the same with the bool_option type and negative integers left out
C21_EvenHexDigitsElsewhere ==
    (/\ IntegerEncoded
     /\ fld.type # "bool_option"
     /\ fld.type = "int" => (\A x \in (IF IsList(probe) THEN {probe.l[i] : i \in 1..Len(probe.l)}
                                        ELSE {probe}) : x.n >= 0))
        => \A token \in Tokens(wire) : EvenPadded(token)
(***************************************************************************)
(* Properties of the per-port fields of a decoded record, over SpecCodec   *)
(***************************************************************************)
\* readDataclass returned a record for the wire text in probe
Fetched == stage = "fetched" /\ IsStr(probe) /\ IsObj(back)
\* the fields of the record that hold a list
PerPort(record) == {fname \in DOMAIN record.f : IsList(record.f[fname])}
\* the port count readDataclass inferred for the text
InferredPorts == PortCount(str_to_json(probe))

\* C22: in every record readDataclass produces, every list-valued field has
\* as many entries as the record's port count.
C22_PortListsSameLength ==
    Fetched => \A fname \in PerPort(back) : Len(back.f[fname].l) = InferredPorts
\* a record read from a text whose lists have one length and whose bitmasks
\* fit that many bits
C22_Witness ==
    /\ Fetched
    /\ probe.s = LinkFull
    /\ Cardinality(PerPort(back)) = 4
    /\ \A fname \in PerPort(back) : Len(back.f[fname].l) = 2
(***************************************************************************)
(* Properties of the inferred port count, over SpecCodec                   *)
(***************************************************************************)
\* the port count as stated: the length of the first list among the values
\* of the mapping, 10 when no value is a list
StatedPorts(json_data) ==
    LET arrays == {i \in 1..Len(json_data.l) : IsList(json_data.l[i].value)}
    IN IF arrays = {} THEN DefaultPortCount
       ELSE Len(json_data.l[CHOOSE i \in arrays : \A j \in arrays : i <= j].value.l)
\* readListDataclass returned the entries of the table text in probe
Listed == stage = "listed" /\ IsStr(probe) /\ IsList(back)
\* a declared field was read from a mapping
FieldRead == stage \in {"read", "rewritten"} /\ fld # NoField /\ IsDict(probe)

\* C23: readDataclass decodes every field with one port count, the length of
\* the first list in the wire mapping, and 10 only when the mapping holds no
\* list; readListDataclass decodes every entry with the count taken in the
\* same way from the first entry; a field that declares ports is decoded
\* with the declared count.
C23_PortCountInferredOnce ==
    /\ Fetched =>
          LET json_data == str_to_json(probe)
          IN back = _parse_dict(cls, json_data, StatedPorts(json_data))
    /\ Listed =>
          LET json_array == str_to_json_array(probe)
          IN \A i \in 1..Len(json_array.l) :
                back.l[i] = _parse_dict(cls, json_array.l[i],
                                        StatedPorts(json_array.l[1]))
    /\ (FieldRead /\ fld.type = "bool") =>
          back = hex_to_bool_list(WireValue, IF fld.ports # -1 THEN fld.ports
                                             ELSE StatedPorts(probe))
\* the first list among the values of the mapping is empty
EmptyFirst(json_data) ==
    \E i \in 1..Len(json_data.l) :
        /\ json_data.l[i].value = PyList(<<>>)
        /\ \A j \in 1..(i - 1) : ~IsList(json_data.l[j].value)
\* the same for mappings whose first list is not empty
C23_PortCountUnlessEmptyFirst ==
    /\ (Fetched /\ ~EmptyFirst(str_to_json(probe))) =>
          LET json_data == str_to_json(probe)
          IN back = _parse_dict(cls, json_data, StatedPorts(json_data))
    /\ (Listed /\ back.l # <<>> /\ ~EmptyFirst(str_to_json_array(probe).l[1])) =>
          LET json_array == str_to_json_array(probe)
          IN \A i \in 1..Len(json_array.l) :
                back.l[i] = _parse_dict(cls, json_array.l[i],
                                        StatedPorts(json_array.l[1]))
    /\ (FieldRead /\ fld.type = "bool" /\ (fld.ports # -1 \/ ~EmptyFirst(probe))) =>
          back = hex_to_bool_list(WireValue, IF fld.ports # -1 THEN fld.ports
                                             ELSE StatedPorts(probe))
\* a table whose second entry was decoded with the first entry's port count
C23_ListWitness ==
    /\ Listed
    /\ probe.s = ListTwo
    /\ Len(back.l) = 2
    /\ Len(back.l[2].f["enabled"].l) = 2
    /\ Len(back.l[2].f["name"].l) = 3
(***************************************************************************)
(* Properties of list-valued wire values, over SpecCodec                   *)
(***************************************************************************)
\* the field types _parse_dict decodes value by value, and those of them
\* _serialize_field encodes
PerValueTypes == {"scalar_bool", "int", "uint64", "str", "mac", "partner_mac", "ip",
                  "partner_ip", "option", "sfp_type", "dbm"}
EncodedTypes == PerValueTypes \ {"sfp_type", "dbm"}
\* a list was read from the wire for a field of one of the types
ArrayRead(types) == FieldRead /\ fld.type \in types /\ IsList(WireValue)
\* the decoded value is the list of the decodes of the elements
DecodedElementWise ==
    /\ IsList(back)
    /\ Len(back.l) = Len(WireValue.l)
    /\ \A i \in 1..Len(WireValue.l) :
          back.l[i] = Transform(fld, WireValue.l[i], probe, PortCount(probe))
\* the list read was encoded into the list of the encodes of its elements
EncodedElementWise ==
    /\ IsList(wire)
    /\ Len(wire.l) = Len(back.l)
    /\ \A i \in 1..Len(back.l) :
          wire.l[i] = _serialize_field(back.l[i], fld, PortCount(probe))

\* C24: for a field of type scalar_bool, int, uint64, str, mac, partner_mac,
\* ip, partner_ip, option, sfp_type or dbm, a list on the wire decodes to
\* the list of the decodes of its elements, of the same length, and a list
\* is encoded to the list of the encodes of its elements.
C24_ElementWise ==
    /\ ArrayRead(PerValueTypes) => DecodedElementWise
    /\ (ArrayRead(EncodedTypes) /\ stage = "rewritten" /\ IsList(back)) =>
          EncodedElementWise
\* the same without the types scalar_bool, mac and ip
C24_ElementWiseElsewhere ==
    /\ ArrayRead(PerValueTypes \ {"scalar_bool", "mac", "ip"}) => DecodedElementWise
    /\ (ArrayRead(EncodedTypes \ {"scalar_bool", "mac", "ip"})
         /\ stage = "rewritten" /\ IsList(back)) =>
          EncodedElementWise
\* a two-entry list of SFP descriptors and one of power readings, decoded
C24_Witness ==
    /\ ArrayRead({"sfp_type"})
    /\ WireValue = PyList(<<PyStr(SfpSX), PyStr(SfpLC)>>)
    /\ back = PyList(<<PyStr(<<83, 88, 56, 53, 48>>), PyStr(<<76, 67>>)>>)
(***************************************************************************)
(* Properties of the fields a record is encoded with, over SpecCodec       *)
(***************************************************************************)
\* writeDataclass was applied to the record in probe
RecordEncoded ==
    /\ stage \in {"encoded", "decoded"}
    /\ IsObj(probe)
    /\ probe.cls \in Classes \cup {"MixedEndpoint"}
\* the field types _serialize_field returns nothing for
NoEncodeTypes == {"bitshift_option", "sfp_type", "dbm"}
\* the field is left out of the wire text
Omitted(record, f) ==
    \/ IsNone(record.f[f.fname])
    \/ ~f.writable
    \/ f.type \in NoEncodeTypes
\* the "key:value" parts of a wire text, and the key of a part
Parts(text) ==
    IF Len(text) <= 2 THEN <<>> ELSE SplitTop(SubSeq(text, 2, Len(text) - 1))
KeyOf(part) ==
    SubSeq(part, 1, (CHOOSE i \in 1..Len(part) :
                        part[i] = Colon /\ \A j \in 1..(i - 1) : part[j] # Colon) - 1)
\* how many parts of the text are written under a wire name of the field
Occurrences(text, f) ==
    Cardinality({n \in 1..Len(Parts(text)) :
                    \E a \in 1..Len(f.name) : KeyOf(Parts(text)[n]) = KeyText(f.name[a])})
\* encoding the field's value on its own raises
FieldRaises(record, f) ==
    IsExc(_serialize_field(record.f[f.fname], f, DefaultPortCount))

\* C25: encoding a record fails only when the encoding of a writable,
\* non-null field of an encodable type fails; in the wire text the null
\* fields, the non-writable fields and the fields of type bitshift_option,
\* sfp_type and dbm do not appear, and every other field appears exactly
\* once.
C25_OmittedOrOnce ==
    RecordEncoded =>
        LET fs == fields(probe.cls)
        IN /\ IsExc(wire) =>
                 \/ endpoint_readonly(probe.cls)
                 \/ \E i \in 1..Len(fs) :
                        ~Omitted(probe, fs[i]) /\ FieldRaises(probe, fs[i])
           /\ IsStr(wire) =>
                 \A i \in 1..Len(fs) :
                    Occurrences(wire.s, fs[i]) = IF Omitted(probe, fs[i]) THEN 0 ELSE 1
\* a record with values in a string field, in fields of the three types
\* without an encoding and in a non-writable field, and a null field: the
\* text holds the string field alone
C25_Witness ==
    /\ RecordEncoded
    /\ probe.cls = "MixedEndpoint"
    /\ \A fname \in {"label", "port_type", "module", "power", "count"} :
          ~IsNone(probe.f[fname])
    /\ IsNone(probe.f["limit"])
    /\ wire = PyStr(<<LBrace>> \o KeyText("i01") \o <<Colon, Quote, 52, 49, Quote, RBrace>>)
(***************************************************************************)
(* Properties of save on records with enum values, over Spec               *)
(***************************************************************************)
\* the values a field holds: the elements of a list, or the value itself
Elements(value) ==
    IF IsList(value) THEN {value.l[i] : i \in 1..Len(value.l)} ELSE {value}
\* a writable field of one of the types, with a declared option list, holds
\* a value that is none of its options
OutsideOptions(record, types) ==
    \E i \in 1..Len(fields(record.cls)) :
        LET f == fields(record.cls)[i]
        IN /\ f.writable
           /\ f.type \in types
           /\ f.options # <<>>
           /\ ~IsNone(record.f[f.fname])
           /\ \E v \in Elements(record.f[f.fname]) :
                  \A k \in 1..Len(f.options) : v # PyStr(f.options[k])
\* save was called with validation on a record of a writable endpoint
SaveValidated ==
    /\ pc \in {"save_wait", "done"}
    /\ IsObj(arg)
    /\ validate
    /\ ~endpoint_readonly(arg.cls)
\* the call ended in ValidationError before any request
Refused == pc = "done" /\ outcome.type = "ValidationError" /\ requests = <<>>

\* C26: with validation enabled, save on a record in which a writable
\* "option" or "bool_option" field holds a value outside its declared
\* options ends in ValidationError without a request to the transport.
C26_EnumNeverSent ==
    (SaveValidated /\ OutsideOptions(arg, {"option", "bool_option"})) => Refused
\* the same for "option" fields alone
C26_OptionNeverSent ==
    (SaveValidated /\ OutsideOptions(arg, {"option"})) => Refused
\* a per-port "option" field with a value outside its options was refused
C26_OptionWitness ==
    /\ SaveValidated
    /\ arg.cls = "LinkEndpoint"
    /\ OutsideOptions(arg, {"option"})
    /\ Refused
(***************************************************************************)
(* Properties of the wire text of a record, over SpecCodec                 *)
(***************************************************************************)
IsLowerHexOrd(cp) == cp \in 48..57 \/ cp \in 97..102
\* 0x[0-9a-f]+
IsHexLiteral(t) ==
    /\ Len(t) >= 3
    /\ SubSeq(t, 1, 2) = ZeroX
    /\ \A k \in 3..Len(t) : IsLowerHexOrd(t[k])
\* a single-quoted hex string of even length
IsQuotedHex(t) ==
    /\ Len(t) >= 2
    /\ Len(t) % 2 = 0
    /\ t[1] = Quote /\ t[Len(t)] = Quote
    /\ \A k \in 2..(Len(t) - 1) : IsLowerHexOrd(t[k])
IsScalarValue(t) == IsHexLiteral(t) \/ IsQuotedHex(t)
\* a bracketed comma-separated list of scalar values, of at least least entries
IsListValue(t, least) ==
    /\ Len(t) >= 2
    /\ t[1] = LBracket /\ t[Len(t)] = RBracket
    /\ LET inner == SubSeq(t, 2, Len(t) - 1)
       IN IF inner = <<>> THEN least = 0
          ELSE /\ Len(SplitTop(inner)) >= least
               /\ \A k \in 1..Len(SplitTop(inner)) : IsScalarValue(SplitTop(inner)[k])
\* key:value with a key of name characters
IsPair(part, least) ==
    /\ \E k \in 1..Len(part) : part[k] = Colon
    /\ LET key == KeyOf(part)
           value == SubSeq(part, Len(key) + 2, Len(part))
       IN /\ key # <<>>
          /\ \A k \in 1..Len(key) : IsNameOrd(key[k])
          /\ IsScalarValue(value) \/ IsListValue(value, least)
\* a brace-wrapped comma-separated list of pairs whose lists have at least
\* least entries
IsSentence(text, least) ==
    /\ Len(text) >= 2
    /\ text[1] = LBrace /\ text[Len(text)] = RBrace
    /\ \A n \in 1..Len(Parts(text)) : IsPair(Parts(text)[n], least)
\* writeDataclass returned a text: for a record as given, or for a record
\* that was fetched and changed
TextEncoded == (RecordEncoded \/ stage = "saved") /\ IsStr(wire)

SaveEnded == pc = "done" /\ IsObj(arg) /\ validate
\* the four outcomes of save: success, the read-only error, ValidationError
\* and SaveError
FourOutcomes ==
    \/ outcome = Returned
    \/ outcome = ReadOnlyError(cls)
    \/ outcome.type = "ValidationError"
    \/ outcome.type = "SaveError"

\* C28: a save called with validation ends in success, the read-only
\* error, ValidationError or SaveError, in success or SaveError when the
\* transport answered, and no other exception escapes from the encoding
\* of the record, whatever the record holds.
C28_FourOutcomes ==
    SaveEnded =>
        /\ FourOutcomes
        /\ requests # <<>> => (outcome = Returned \/ outcome.type = "SaveError")
\* the same for the calls in which the encoding of the record completes
C28_FourOutcomesOnceEncoded ==
    (SaveEnded /\ ~IsExc(writeDataclass(arg, variant))) =>
        /\ FourOutcomes
        /\ requests # <<>> => (outcome = Returned \/ outcome.type = "SaveError")
(***************************************************************************)
(* Properties of two calls in flight, over SpecPair                        *)
(***************************************************************************)
\* what a save of the record ends in when it runs alone and the transport,
\* if it is reached, gives the answer
AloneSave(e, v, field_variant, resp) ==
    IF endpoint_readonly(e.cls) THEN ReadOnlyError(e.cls)
    ELSE IF v /\ validate_dataclass(e) # <<>> THEN ValidationError(validate_dataclass(e))
    ELSE IF IsExc(writeDataclass(e, field_variant))
    THEN Propagated(writeDataclass(e, field_variant))
    ELSE IF resp.status # 200
    THEN SaveError(resp.status, resp.text, urljoin(Host, endpoint_path(e.cls)), e.cls)
    ELSE Returned
\* what a fetch of the class ends in when it runs alone
AloneFetch(c, resp) ==
    IF resp.status # 200 THEN raise_for_status(resp)
    ELSE IF IsExc(readDataclass(c, PyStr(resp.text)))
    THEN Propagated(readDataclass(c, PyStr(resp.text)))
    ELSE Returned
Alone(call) ==
    IF call.kind = "save"
    THEN AloneSave(call.arg, call.validate, call.variant, call.response)
    ELSE AloneFetch(call.cls, call.response)
\* the request call i must have sent
OwnRequest(call) ==
    IF call.kind = "save"
    THEN Request("POST", urljoin(Host, endpoint_path(call.cls)),
                 writeDataclass(call.arg, call.variant))
    ELSE Request("GET", urljoin(Host, endpoint_path(call.cls)), None)
RequestsOf(i) == {k \in 1..Len(traffic) : traffic[k].id = i /\ traffic[k].dir = "request"}
\* both calls were in flight at once: the second request passed before the
\* first answer
Overlapped ==
    /\ Len(traffic) >= 2
    /\ traffic[1].dir = "request" /\ traffic[2].dir = "request"

\* C29: of two save or fetch calls interleaved at their awaits, each sends
\* at most one request, the one made from its own record or class, and each
\* ends in the outcome it has when it runs alone with the answer it got.
C29_CallsIndependent ==
    \A i \in CallIds :
        /\ Cardinality(RequestsOf(i)) <= 1
        /\ \A k \in RequestsOf(i) : traffic[k].request = OwnRequest(calls[i])
        /\ calls[i].pc = "done" => calls[i].outcome = Alone(calls[i])
\* a save and a fetch in flight at once, the later call answered first, the
\* save refused by the device and the fetch returning its record
C29_Witness ==
    /\ Overlapped
    /\ Len(traffic) = 4
    /\ traffic[1].id = 1 /\ traffic[2].id = 2 /\ traffic[3].id = 2 /\ traffic[4].id = 1
    /\ calls[1].kind = "save" /\ calls[1].outcome.type = "SaveError"
    /\ calls[2].kind = "fetch" /\ calls[2].outcome = Returned /\ IsObj(calls[2].rec)
(***************************************************************************)
(* Properties of the caller's record across save, over SpecFailing         *)
(***************************************************************************)
SaveInProgress == pc \in {"save_wait", "done"} /\ IsObj(arg)

====
